---------------------------- MODULE Spec2Model ----------------------------
(***************************************************************************)
(* Feature symbology override resolution (FeatureAppearance,               *)
(* FeatureOverrides) of core/common/src/FeatureSymbology.ts.               *)
(*                                                                         *)
(* An optional value (`x?: T`) is a sequence of length at most one:        *)
(* Undefined is <<>>, a defined value v is <<v>>.  A 64-bit Id is the pair *)
(* <<lower, upper>> of its unsigned 32-bit halves.  A transparency is an   *)
(* integer count of 1e-5 units, so that 1.0 is TranspOne.                  *)
(***************************************************************************)
EXTENDS Integers, Sequences, FiniteSets, TLC

Undefined == <<>>
Def(v) == <<v>>
IsDef(x) == x # Undefined
Val(x) == x[1]
Truthy(x) == x = Def(TRUE)

Max(a, b) == IF a >= b THEN a ELSE b
Min(a, b) == IF a <= b THEN a ELSE b

(***************************************************************************)
(* FeatureAppearance                                                       *)
(***************************************************************************)
MinWeight == 1
MaxWeight == 32
TranspOne == 100000
smallDelta == 10

Aspects == {"rgb", "weight", "transparency", "linePixels",
            "ignoresMaterial", "nonLocatable", "emphasized"}

\* FeatureAppearanceProps with no member set.
NoProps ==
  [rgb |-> Undefined, weight |-> Undefined, transparency |-> Undefined,
   viewDependentTransparency |-> Undefined, linePixels |-> Undefined,
   ignoresMaterial |-> Undefined, nonLocatable |-> Undefined,
   emphasized |-> Undefined]

\* The protected constructor: copies the members, clamps the weight into
\* [1, 32], keeps viewDependentTransparency only with a transparency, clamps
\* the transparency into [0, 1] and snaps it to a bound closer than smallDelta.
ClampWeight(w) == Max(MinWeight, Min(w, MaxWeight))

\* `1.0 - t < smallDelta` as the doubles evaluate it for t a multiple of 1e-5:
\* the difference is exact but for t = 0.9999, whose double lies above 0.9999,
\* so that 1.0 - 0.9999 is 9.999999999998899e-05 and is less than the double
\* 0.0001.  `t < smallDelta` is exact on these values.
OneMinusBelowDelta(c) == TranspOne - c <= smallDelta

\* A variant that does not snap a transparency close to 1.
SnapTransparency_NoUpperSnap(t) ==
  LET c == Max(0, Min(t, TranspOne))
  IN  IF c < smallDelta THEN 0 ELSE c

SnapTransparency(t) ==
  LET c == Max(0, Min(t, TranspOne))
  IN  IF OneMinusBelowDelta(c) THEN TranspOne
      ELSE IF c < smallDelta THEN 0
      ELSE c

Construct(props) ==
  [rgb |-> props.rgb,
   weight |-> IF IsDef(props.weight) THEN Def(ClampWeight(Val(props.weight)))
              ELSE Undefined,
   transparency |-> IF IsDef(props.transparency)
                    THEN Def(SnapTransparency(Val(props.transparency)))
                    ELSE Undefined,
   viewDependentTransparency |->
       IF IsDef(props.transparency) /\ Truthy(props.viewDependentTransparency)
       THEN Def(TRUE) ELSE Undefined,
   linePixels |-> props.linePixels,
   ignoresMaterial |-> props.ignoresMaterial,
   nonLocatable |-> props.nonLocatable,
   emphasized |-> props.emphasized]

\* FeatureAppearance.defaults: an appearance that overrides nothing.
defaults == Construct(NoProps)

fromJSON(props) ==
  IF /\ ~IsDef(props.rgb) /\ ~IsDef(props.weight) /\ ~IsDef(props.transparency)
     /\ ~IsDef(props.linePixels) /\ ~Truthy(props.ignoresMaterial)
     /\ ~Truthy(props.nonLocatable) /\ ~Truthy(props.emphasized)
  THEN defaults
  ELSE Construct(props)

overridesNonLocatable(app) == IsDef(app.nonLocatable)

\* A variant that does not count a weight as overriding symbology.
overridesSymbology_WeightForgotten(app) ==
  \/ IsDef(app.rgb) \/ IsDef(app.transparency)
  \/ IsDef(app.linePixels) \/ Truthy(app.ignoresMaterial)
  \/ Truthy(app.emphasized) \/ overridesNonLocatable(app)

overridesSymbology(app) ==
  \/ IsDef(app.rgb) \/ IsDef(app.transparency) \/ IsDef(app.weight)
  \/ IsDef(app.linePixels) \/ Truthy(app.ignoresMaterial)
  \/ Truthy(app.emphasized) \/ overridesNonLocatable(app)

\* A variant that takes only a transparency above 1.0 for fully transparent.
isFullyTransparent_Above(app) ==
  IsDef(app.transparency) /\ Val(app.transparency) > TranspOne

isFullyTransparent(app) ==
  IsDef(app.transparency) /\ Val(app.transparency) >= TranspOne

toJSON(app) ==
  [rgb |-> app.rgb,
   weight |-> app.weight,
   transparency |-> app.transparency,
   viewDependentTransparency |->
       IF IsDef(app.transparency) /\ Truthy(app.viewDependentTransparency)
       THEN Def(TRUE) ELSE Undefined,
   linePixels |-> app.linePixels,
   ignoresMaterial |-> IF Truthy(app.ignoresMaterial) THEN Def(TRUE) ELSE Undefined,
   nonLocatable |-> IF Truthy(app.nonLocatable) THEN Def(TRUE) ELSE Undefined,
   emphasized |-> IF Truthy(app.emphasized) THEN Def(TRUE) ELSE Undefined]

\* A variant that does not fill linePixels from `self`.
extendAppearance_LinePixelsOfBase(self, base) ==
  IF ~overridesSymbology(self) THEN base
  ELSE
    LET p0 == toJSON(base)
        fill(f) == IF ~IsDef(p0[f]) THEN self[f] ELSE p0[f]
        flag(f) == IF ~IsDef(p0[f]) /\ Truthy(self[f]) THEN Def(TRUE) ELSE p0[f]
    IN  fromJSON([rgb |-> fill("rgb"),
                  transparency |-> fill("transparency"),
                  linePixels |-> p0.linePixels,
                  weight |-> fill("weight"),
                  ignoresMaterial |-> flag("ignoresMaterial"),
                  nonLocatable |-> flag("nonLocatable"),
                  emphasized |-> flag("emphasized"),
                  viewDependentTransparency |->
                    IF IsDef(fill("transparency")) /\ Truthy(self.viewDependentTransparency)
                    THEN Def(TRUE) ELSE p0.viewDependentTransparency])

\* A variant in which the aspects of `self` prevail and `base` fills the rest.
extendAppearance_SelfPrevails(self, base) ==
  IF ~overridesSymbology(self) THEN base
  ELSE
    LET p0 == toJSON(self)
        fill(f) == IF ~IsDef(p0[f]) THEN base[f] ELSE p0[f]
        flag(f) == IF ~IsDef(p0[f]) /\ Truthy(base[f]) THEN Def(TRUE) ELSE p0[f]
    IN  fromJSON([rgb |-> fill("rgb"),
                  transparency |-> fill("transparency"),
                  linePixels |-> fill("linePixels"),
                  weight |-> fill("weight"),
                  ignoresMaterial |-> flag("ignoresMaterial"),
                  nonLocatable |-> flag("nonLocatable"),
                  emphasized |-> flag("emphasized"),
                  viewDependentTransparency |->
                    IF IsDef(fill("transparency")) /\ Truthy(self.viewDependentTransparency)
                    THEN Def(TRUE) ELSE Undefined])

\* self.extendAppearance(base): every aspect base defines is kept, every
\* aspect base leaves undefined is taken from self.
extendAppearance(self, base) ==
  IF ~overridesSymbology(self) THEN base
  ELSE
    LET p0 == toJSON(base)
        fill(f) == IF ~IsDef(p0[f]) THEN self[f] ELSE p0[f]
        flag(f) == IF ~IsDef(p0[f]) /\ Truthy(self[f]) THEN Def(TRUE) ELSE p0[f]
        transp == fill("transparency")
        props ==
          [rgb |-> fill("rgb"),
           transparency |-> transp,
           linePixels |-> fill("linePixels"),
           weight |-> fill("weight"),
           ignoresMaterial |-> flag("ignoresMaterial"),
           nonLocatable |-> flag("nonLocatable"),
           emphasized |-> flag("emphasized"),
           viewDependentTransparency |->
               IF IsDef(transp) /\ Truthy(self.viewDependentTransparency)
               THEN Def(TRUE) ELSE p0.viewDependentTransparency]
    IN  fromJSON(props)

\* cloneProps: this appearance's JSON with every member changedProps has,
\* also one it has as undefined, taken from changedProps.  changedProps is a
\* function on the members it has.
cloneProps(self, changedProps) ==
  [k \in DOMAIN NoProps |->
     IF k \in DOMAIN changedProps THEN changedProps[k] ELSE toJSON(self)[k]]

clone(self, changedProps) == fromJSON(cloneProps(self, changedProps))

(***************************************************************************)
(* Identifiers, enumerations and containers                                *)
(***************************************************************************)
InvalidId == <<0, 0>>

\* Id64.isValidUint32Pair: the local id (the lower word and the low byte of
\* the upper word) is not zero.
isValidUint32Pair(lo, hi) == lo # 0 \/ (hi % 256) # 0

GeometryClass == {"Primary", "Construction", "Dimension", "Pattern"}
BatchType == {"Primary", "VolumeClassifier", "PlanarClassifier"}
OnConflict == {"extend", "subsume", "replace", "skip"}

\* Id64.Uint32Map / Map: a function on the keys that have an entry.
EmptyMap == <<>>
MapGet(map, key) == IF key \in DOMAIN map THEN Def(map[key]) ELSE Undefined
MapSet(map, key, value) ==
  [k \in (DOMAIN map) \cup {key} |-> IF k = key THEN value ELSE map[k]]

(***************************************************************************)
(* FeatureOverrides: the registry fields after construction                *)
(***************************************************************************)
NewFeatureOverrides ==
  [ignoreAnimationOverrides |-> <<>>,
   neverDrawn |-> {},
   alwaysDrawn |-> {},
   isAlwaysDrawnExclusive |-> FALSE,
   alwaysDrawnIgnoresSubCategory |-> TRUE,
   ignoreSubCategory |-> FALSE,
   defaultOverrides |-> defaults,
   constructions |-> FALSE,
   dimensions |-> FALSE,
   patterns |-> FALSE,
   lineWeights |-> TRUE,
   modelOverrides |-> EmptyMap,
   elementOverrides |-> EmptyMap,
   subCategoryOverrides |-> EmptyMap,
   visibleSubCategories |-> {},
   modelSubCategoryOverrides |-> EmptyMap,
   neverDrawnAnimationNodes |-> {},
   animationNodeOverrides |-> EmptyMap]

weight1Appearance == fromJSON([NoProps EXCEPT !.weight = Def(1)])

\* An IgnoreAnimationOverrides function, applied to its arguments
\* (elementId: the Uint32Pair, animationNodeId): what it returns.  The
\* callers' functions are drawn from IgnoreFunctions and ReentrantFunctions.
\* 'queryElement2', called for element <<1, 0>>, asks the same registry
\* getAppearance for element <<2, 0>> under the same animation node, as a
\* feature of an ordinary batch, and returns false.
IgnoreFunctions == {"ignoreNone", "ignoreAll", "ignoreElement1"}
ReentrantFunctions == {"queryElement2"}
ApplyIgnore(ignore, args) ==
  CASE ignore = "ignoreNone" -> FALSE
    [] ignore = "ignoreAll" -> TRUE
    [] ignore = "ignoreElement1" -> args.elementId = <<1, 0>>
    [] ignore = "queryElement2" -> FALSE

\* A variant that does not look at the never-drawn animation nodes.
isNeverDrawn_ElementsOnly(fo, elemIdLo, elemIdHi, animationNodeId) ==
  <<elemIdLo, elemIdHi>> \in fo.neverDrawn

\* A variant in which the always-drawn set is consulted before neverDrawn.
isNeverDrawn_UnlessAlwaysDrawn(fo, elemIdLo, elemIdHi, animationNodeId) ==
  IF <<elemIdLo, elemIdHi>> \in fo.neverDrawn
       /\ <<elemIdLo, elemIdHi>> \notin fo.alwaysDrawn THEN TRUE
  ELSE animationNodeId \in fo.neverDrawnAnimationNodes

isNeverDrawn(fo, elemIdLo, elemIdHi, animationNodeId) ==
  IF <<elemIdLo, elemIdHi>> \in fo.neverDrawn THEN TRUE
  ELSE animationNodeId \in fo.neverDrawnAnimationNodes

\* A variant that holds of every element once any element is always drawn.
isAlwaysDrawn_AnyElement(fo, idLo, idHi) == fo.alwaysDrawn # {}

\* A variant that looks the id up with its two halves exchanged.
isAlwaysDrawn_HalvesExchanged(fo, idLo, idHi) == <<idHi, idLo>> \in fo.alwaysDrawn

isAlwaysDrawn(fo, idLo, idHi) == <<idLo, idHi>> \in fo.alwaysDrawn

isSubCategoryVisible(fo, idLo, idHi) == <<idLo, idHi>> \in fo.visibleSubCategories

\* A variant that does not look at the model's inversions.
isSubCategoryVisibleInModel_NoInversion(fo, subcatLo, subcatHi, modelLo, modelHi) ==
  IF fo.ignoreSubCategory THEN TRUE
  ELSE isSubCategoryVisible(fo, subcatLo, subcatHi)

isSubCategoryVisibleInModel(fo, subcatLo, subcatHi, modelLo, modelHi) ==
  IF fo.ignoreSubCategory THEN TRUE
  ELSE
    LET vis == isSubCategoryVisible(fo, subcatLo, subcatHi)
        modelOvr == MapGet(fo.modelSubCategoryOverrides, <<modelLo, modelHi>>)
    IN  IF IsDef(modelOvr) /\ <<subcatLo, subcatHi>> \in Val(modelOvr)
        THEN ~vis ELSE vis

\* A variant that does not find a model override that overrides nothing.
getModelOverrides_OnlyOverriding(fo, idLo, idHi) ==
  LET app == MapGet(fo.modelOverrides, <<idLo, idHi>>)
  IN  IF IsDef(app) /\ overridesSymbology(Val(app)) THEN app ELSE Undefined

getModelOverrides(fo, idLo, idHi) == MapGet(fo.modelOverrides, <<idLo, idHi>>)

\* scratchIgnoreAnimationOverridesArgs: the one object, shared by all calls
\* and all registries, that getElementAnimationOverrides fills in and hands
\* to every function.  Its value after construction:
scratchIgnoreAnimationOverridesArgs ==
  [elementId |-> <<0, 0>>, animationNodeId |-> 0]

\* getAppearance for an element and an animation node comes to call the
\* registered functions: on the primary path the element id is valid, the
\* element is not never-drawn and not excluded by isAlwaysDrawnExclusive; an
\* override is registered for the node, the node is not 0, and a function is
\* registered.
ConsultsIgnore(fo, idLo, idHi, type, animationNodeId) ==
  /\ \/ type = "VolumeClassifier" \/ type = "PlanarClassifier"
     \/ /\ isValidUint32Pair(idLo, idHi)
        /\ ~isNeverDrawn(fo, idLo, idHi, animationNodeId)
        /\ (isAlwaysDrawn(fo, idLo, idHi) \/ ~fo.isAlwaysDrawnExclusive)
  /\ animationNodeId \in DOMAIN fo.animationNodeOverrides
  /\ animationNodeId # 0
  /\ Len(fo.ignoreAnimationOverrides) # 0

\* The scratch object after function `ignore` was called with it: a call of
\* getAppearance made by the function has filled it in anew.
ScratchAfter(fo, ignore, args) ==
  IF /\ ignore = "queryElement2"
     /\ args.elementId = <<1, 0>>
     /\ ConsultsIgnore(fo, 2, 0, "Primary", args.animationNodeId)
  THEN [elementId |-> <<2, 0>>, animationNodeId |-> args.animationNodeId]
  ELSE args

\* this._ignoreAnimationOverrides.some((ignore) => ignore(args)), from the
\* i-th function on: every function is handed the scratch object as the
\* calls before it left it.
RECURSIVE SomeIgnore(_, _, _)
SomeIgnore(fo, i, args) ==
  IF i > Len(fo.ignoreAnimationOverrides) THEN FALSE
  ELSE \/ ApplyIgnore(fo.ignoreAnimationOverrides[i], args)
       \/ SomeIgnore(fo, i + 1, ScratchAfter(fo, fo.ignoreAnimationOverrides[i], args))

\* The contents of the argument object at each call of a function made by
\* some(), from the i-th function on, in the order of the calls.
RECURSIVE IgnoreArgs(_, _, _)
IgnoreArgs(fo, i, args) ==
  IF i > Len(fo.ignoreAnimationOverrides) THEN <<>>
  ELSE IF ApplyIgnore(fo.ignoreAnimationOverrides[i], args) THEN <<args>>
  ELSE <<args>> \o IgnoreArgs(fo, i + 1,
                              ScratchAfter(fo, fo.ignoreAnimationOverrides[i], args))

\* A variant that has no override for animation node 0.
getElementAnimationOverrides_NoneForZero(fo, idLo, idHi, animationNodeId) ==
  IF DOMAIN fo.animationNodeOverrides = {} \/ animationNodeId = 0 THEN Undefined
  ELSE
    LET app == MapGet(fo.animationNodeOverrides, animationNodeId)
        args == [elementId |-> <<idLo, idHi>>, animationNodeId |-> animationNodeId]
    IN  IF ~IsDef(app) \/ Len(fo.ignoreAnimationOverrides) = 0
        THEN app
        ELSE IF \E i \in 1..Len(fo.ignoreAnimationOverrides) :
                  ApplyIgnore(fo.ignoreAnimationOverrides[i], args)
             THEN Undefined ELSE app

\* A variant that suppresses only when every registered function says so.
getElementAnimationOverrides_AllAgree(fo, idLo, idHi, animationNodeId) ==
  IF DOMAIN fo.animationNodeOverrides = {} THEN Undefined
  ELSE
    LET app == MapGet(fo.animationNodeOverrides, animationNodeId)
        args == [elementId |-> <<idLo, idHi>>, animationNodeId |-> animationNodeId]
    IN  IF ~IsDef(app) \/ animationNodeId = 0
           \/ Len(fo.ignoreAnimationOverrides) = 0
        THEN app
        ELSE IF \A i \in 1..Len(fo.ignoreAnimationOverrides) :
                  ApplyIgnore(fo.ignoreAnimationOverrides[i], args)
             THEN Undefined ELSE app

getElementAnimationOverrides(fo, idLo, idHi, animationNodeId) ==
  IF DOMAIN fo.animationNodeOverrides = {} THEN Undefined
  ELSE
    LET app == MapGet(fo.animationNodeOverrides, animationNodeId)
        args == [elementId |-> <<idLo, idHi>>, animationNodeId |-> animationNodeId]
    IN  IF ~IsDef(app) \/ animationNodeId = 0
           \/ Len(fo.ignoreAnimationOverrides) = 0
        THEN app
        ELSE IF SomeIgnore(fo, 1, args) THEN Undefined ELSE app

\* A variant that drops the animation-node override when the element has one.
getElementOverrides_ElementAlone(fo, idLo, idHi, animationNodeId) ==
  LET elemApp == MapGet(fo.elementOverrides, <<idLo, idHi>>)
      nodeApp == getElementAnimationOverrides(fo, idLo, idHi, animationNodeId)
  IN  IF IsDef(elemApp) THEN elemApp ELSE nodeApp

\* A variant in which the animation-node override prevails over the element's.
getElementOverrides_NodePrevails(fo, idLo, idHi, animationNodeId) ==
  LET elemApp == MapGet(fo.elementOverrides, <<idLo, idHi>>)
      nodeApp == getElementAnimationOverrides(fo, idLo, idHi, animationNodeId)
  IN  IF IsDef(elemApp)
      THEN IF IsDef(nodeApp) THEN Def(extendAppearance(Val(elemApp), Val(nodeApp)))
           ELSE elemApp
      ELSE nodeApp

getElementOverrides(fo, idLo, idHi, animationNodeId) ==
  LET elemApp == MapGet(fo.elementOverrides, <<idLo, idHi>>)
      nodeApp == getElementAnimationOverrides(fo, idLo, idHi, animationNodeId)
  IN  IF IsDef(elemApp)
      THEN IF IsDef(nodeApp) THEN Def(extendAppearance(Val(nodeApp), Val(elemApp)))
           ELSE elemApp
      ELSE nodeApp

getSubCategoryOverrides(fo, idLo, idHi) == MapGet(fo.subCategoryOverrides, <<idLo, idHi>>)

\* A variant that never hides area patterns.
isClassVisible_PatternsAlways(fo, geomClass) ==
  CASE geomClass = "Construction" -> fo.constructions
    [] geomClass = "Dimension" -> fo.dimensions
    [] OTHER -> TRUE

isClassVisible(fo, geomClass) ==
  CASE geomClass = "Construction" -> fo.constructions
    [] geomClass = "Dimension" -> fo.dimensions
    [] geomClass = "Pattern" -> fo.patterns
    [] OTHER -> TRUE

\* A variant in which a subcategory override suppresses the defaults, as on
\* the primary path.
getClassifierAppearance_SubCatSuppresses(fo, elemLo, elemHi, subcatLo, subcatHi, modelLo, modelHi, animationNodeId) ==
  LET modelApp == getModelOverrides(fo, modelLo, modelHi)
      app1 == IF IsDef(modelApp) THEN extendAppearance(Val(modelApp), defaults)
              ELSE defaults
      elemApp == getElementOverrides(fo, elemLo, elemHi, animationNodeId)
      app2 == IF IsDef(elemApp)
              THEN IF IsDef(modelApp) THEN extendAppearance(Val(elemApp), app1)
                   ELSE Val(elemApp)
              ELSE app1
      subCat == IF ~fo.ignoreSubCategory /\ isValidUint32Pair(subcatLo, subcatHi)
                THEN getSubCategoryOverrides(fo, subcatLo, subcatHi)
                ELSE Undefined
      app3 == IF IsDef(subCat) THEN extendAppearance(Val(subCat), app2) ELSE app2
      app4 == IF ~IsDef(elemApp) /\ ~IsDef(modelApp) /\ ~IsDef(subCat)
              THEN extendAppearance(fo.defaultOverrides, app3) ELSE app3
  IN  Def(app4)

\* Classifiers are never invisible; a fully-transparent one is a clip mask.
getClassifierAppearance(fo, elemLo, elemHi, subcatLo, subcatHi, modelLo, modelHi, animationNodeId) ==
  LET modelApp == getModelOverrides(fo, modelLo, modelHi)
      app1 == IF IsDef(modelApp) THEN extendAppearance(Val(modelApp), defaults)
              ELSE defaults
      elemApp == getElementOverrides(fo, elemLo, elemHi, animationNodeId)
      app2 == IF IsDef(elemApp)
              THEN IF IsDef(modelApp) THEN extendAppearance(Val(elemApp), app1)
                   ELSE Val(elemApp)
              ELSE app1
      subCat == IF ~fo.ignoreSubCategory /\ isValidUint32Pair(subcatLo, subcatHi)
                THEN getSubCategoryOverrides(fo, subcatLo, subcatHi)
                ELSE Undefined
      app3 == IF IsDef(subCat) THEN extendAppearance(Val(subCat), app2) ELSE app2
      app4 == IF ~IsDef(elemApp) /\ ~IsDef(modelApp)
              THEN extendAppearance(fo.defaultOverrides, app3) ELSE app3
  IN  Def(app4)

\* A variant that takes every element id for valid.
getPrimaryAppearance_ElementUntested(fo, elemLo, elemHi, subcatLo, subcatHi, geomClass, modelLo, modelHi, animationNodeId) ==
  LET app0 == IF ~fo.lineWeights THEN weight1Appearance ELSE defaults
      modelApp == getModelOverrides(fo, modelLo, modelHi)
      app1 == IF IsDef(modelApp) THEN extendAppearance(Val(modelApp), app0) ELSE app0
      validElem == TRUE
      alwaysDrawn == validElem /\ isAlwaysDrawn(fo, elemLo, elemHi)
      elemApp == IF validElem THEN getElementOverrides(fo, elemLo, elemHi, animationNodeId)
                 ELSE Undefined
      app2 == IF IsDef(elemApp)
              THEN IF IsDef(modelApp) THEN extendAppearance(Val(elemApp), app1)
                   ELSE Val(elemApp)
              ELSE app1
      checkSubCat == ~fo.ignoreSubCategory /\ isValidUint32Pair(subcatLo, subcatHi)
      subCatApp == IF checkSubCat THEN getSubCategoryOverrides(fo, subcatLo, subcatHi)
                   ELSE Undefined
      app3 == IF IsDef(subCatApp) THEN extendAppearance(Val(subCatApp), app2) ELSE app2
      app4 == IF ~IsDef(elemApp) /\ ~IsDef(modelApp) /\ ~IsDef(subCatApp)
              THEN extendAppearance(fo.defaultOverrides, app3) ELSE app3
      visible == (alwaysDrawn \/ isClassVisible(fo, geomClass))
                 /\ ~isFullyTransparent(app4)
  IN  IF validElem /\ isNeverDrawn(fo, elemLo, elemHi, animationNodeId) THEN Undefined
      ELSE IF validElem /\ ~alwaysDrawn /\ fo.isAlwaysDrawnExclusive THEN Undefined
      ELSE IF checkSubCat
              /\ (~alwaysDrawn \/ ~fo.alwaysDrawnIgnoresSubCategory)
              /\ ~isSubCategoryVisibleInModel(fo, subcatLo, subcatHi, modelLo, modelHi)
           THEN Undefined
      ELSE IF visible THEN Def(app4) ELSE Undefined

\* getAppearance past the classifier test: the resolution of a feature of an
\* ordinary batch.  Def(appearance), or Undefined if the feature is not visible.
getPrimaryAppearance(fo, elemLo, elemHi, subcatLo, subcatHi, geomClass, modelLo, modelHi, animationNodeId) ==
  LET app0 == IF ~fo.lineWeights THEN weight1Appearance ELSE defaults
      modelApp == getModelOverrides(fo, modelLo, modelHi)
      app1 == IF IsDef(modelApp) THEN extendAppearance(Val(modelApp), app0) ELSE app0
      validElem == isValidUint32Pair(elemLo, elemHi)
      alwaysDrawn == validElem /\ isAlwaysDrawn(fo, elemLo, elemHi)
      elemApp == IF validElem THEN getElementOverrides(fo, elemLo, elemHi, animationNodeId)
                 ELSE Undefined
      app2 == IF IsDef(elemApp)
              THEN IF IsDef(modelApp) THEN extendAppearance(Val(elemApp), app1)
                   ELSE Val(elemApp)
              ELSE app1
      checkSubCat == ~fo.ignoreSubCategory /\ isValidUint32Pair(subcatLo, subcatHi)
      subCatApp == IF checkSubCat THEN getSubCategoryOverrides(fo, subcatLo, subcatHi)
                   ELSE Undefined
      app3 == IF IsDef(subCatApp) THEN extendAppearance(Val(subCatApp), app2) ELSE app2
      app4 == IF ~IsDef(elemApp) /\ ~IsDef(modelApp) /\ ~IsDef(subCatApp)
              THEN extendAppearance(fo.defaultOverrides, app3) ELSE app3
      visible == (alwaysDrawn \/ isClassVisible(fo, geomClass))
                 /\ ~isFullyTransparent(app4)
  IN  IF validElem /\ isNeverDrawn(fo, elemLo, elemHi, animationNodeId) THEN Undefined
      ELSE IF validElem /\ ~alwaysDrawn /\ fo.isAlwaysDrawnExclusive THEN Undefined
      ELSE IF checkSubCat
              /\ (~alwaysDrawn \/ ~fo.alwaysDrawnIgnoresSubCategory)
              /\ ~isSubCategoryVisibleInModel(fo, subcatLo, subcatHi, modelLo, modelHi)
           THEN Undefined
      ELSE IF visible THEN Def(app4) ELSE Undefined

\* A variant that takes only volume classifiers for classifiers.
getAppearance_VolumeOnly(fo, elemLo, elemHi, subcatLo, subcatHi, geomClass, modelLo, modelHi, type, animationNodeId) ==
  IF type = "VolumeClassifier"
  THEN getClassifierAppearance(fo, elemLo, elemHi, subcatLo, subcatHi, modelLo, modelHi, animationNodeId)
  ELSE getPrimaryAppearance(fo, elemLo, elemHi, subcatLo, subcatHi, geomClass, modelLo, modelHi, animationNodeId)

getAppearance(fo, elemLo, elemHi, subcatLo, subcatHi, geomClass, modelLo, modelHi, type, animationNodeId) ==
  IF type = "VolumeClassifier" \/ type = "PlanarClassifier"
  THEN getClassifierAppearance(fo, elemLo, elemHi, subcatLo, subcatHi, modelLo, modelHi, animationNodeId)
  ELSE getPrimaryAppearance(fo, elemLo, elemHi, subcatLo, subcatHi, geomClass, modelLo, modelHi, animationNodeId)

\* getFeatureAppearance(feature, modelId, type, animationNodeId): the ids of
\* the feature and of the model are split into their halves; type and
\* animationNodeId, when left out, are BatchType.Primary and 0.
getFeatureAppearance(fo, feature, modelId, type, animationNodeId) ==
  getAppearance(fo, feature.elementId[1], feature.elementId[2],
                feature.subCategoryId[1], feature.subCategoryId[2],
                feature.geometryClass, modelId[1], modelId[2],
                IF IsDef(type) THEN Val(type) ELSE "Primary",
                IF IsDef(animationNodeId) THEN Val(animationNodeId) ELSE 0)

\* isFeatureVisible(feature).  Id64.isInvalid holds of the id '0', the pair
\* of two zero halves.
isFeatureVisible(fo, feature) ==
  LET isValidElemId == feature.elementId # InvalidId
      elemIdParts == IF isValidElemId THEN Def(feature.elementId) ELSE Undefined
      alwaysDrawn == IsDef(elemIdParts)
                     /\ isAlwaysDrawn(fo, Val(elemIdParts)[1], Val(elemIdParts)[2])
  IN  IF IsDef(elemIdParts)
         /\ isNeverDrawn(fo, Val(elemIdParts)[1], Val(elemIdParts)[2], 0)
      THEN FALSE
      ELSE IF alwaysDrawn \/ fo.isAlwaysDrawnExclusive THEN alwaysDrawn
      ELSE IF ~isSubCategoryVisible(fo, feature.subCategoryId[1], feature.subCategoryId[2])
           THEN FALSE
      ELSE isClassVisible(fo, feature.geometryClass)

(***************************************************************************)
(* FeatureAppearanceProvider.  A provider is a record; `obj` tells the     *)
(* objects that supplement() returns apart, so that two providers are the  *)
(* same object (===) exactly when the records are equal.  A                *)
(* FeatureAppearanceSource is the registry (`base`) or what wrap() made.   *)
(* Asking a provider or a source for an appearance yields the appearance   *)
(* (`ret`) and the supplementAppearance functions called on the way, in    *)
(* the order of the calls (`calls`).                                       *)
(***************************************************************************)
\* The supplementAppearance functions of the callers.
SupplementFunctions == {"weight5", "heavier", "red"}
ApplySupplement(fn, appearance) ==
  CASE fn = "weight5" -> clone(appearance, [weight |-> Def(5)])
    [] fn = "heavier" ->
         IF IsDef(appearance.weight)
         THEN clone(appearance, [weight |-> Def(Val(appearance.weight) + 10)])
         ELSE appearance
    [] fn = "red" -> clone(appearance, [rgb |-> Def("red")])

BaseSource(ret) == [kind |-> "base", ret |-> ret]

wrap(source, provider) == [kind |-> "wrap", source |-> source, provider |-> provider]

supplement(supplementAppearance, obj) ==
  [kind |-> "supplement", supplementAppearance |-> supplementAppearance, obj |-> obj]

\* A variant that routes the queries of `first` through `second`.
chain_SecondApplied(first, second) ==
  IF first = second THEN first
  ELSE [kind |-> "chain", first |-> second, second |-> first]

chain(first, second) ==
  IF first = second THEN first
  ELSE [kind |-> "chain", first |-> first, second |-> second]

\* `app ? supplementAppearance(app) : app`, for what the source returned.
Supplemented(supplementAppearance, app) ==
  IF IsDef(app.ret)
  THEN [ret |-> Def(ApplySupplement(supplementAppearance, Val(app.ret))),
        calls |-> Append(app.calls, supplementAppearance)]
  ELSE app

RECURSIVE ProviderAppearance(_, _)
SourceAppearance(source) ==
  IF source.kind = "base" THEN [ret |-> source.ret, calls |-> <<>>]
  ELSE ProviderAppearance(source.provider, source.source)

\* provider.getFeatureAppearance(source, the feature)
ProviderAppearance(provider, source) ==
  IF provider.kind = "supplement"
  THEN CHOOSE r \in {Supplemented(provider.supplementAppearance, app) :
                       app \in {SourceAppearance(source)}} : TRUE
  ELSE ProviderAppearance(provider.second, wrap(source, provider.first))

(***************************************************************************)
(* The state: one FeatureOverrides instance `fo`, the call under           *)
(* observation with what it returned (`last`: a query, or a registration   *)
(* call whose arguments a property speaks of), and the number of           *)
(* registration calls made so far (`nOps`).                                *)
(***************************************************************************)
VARIABLES fo, last, nOps

vars == <<fo, last, nOps>>

NoCall == [op |-> "none"]

Init ==
  /\ fo = NewFeatureOverrides
  /\ last = NoCall
  /\ nOps = 0

\* A query reads the registry and changes nothing of it, so a call made after
\* a query reaches the state the same call reaches before it.  The model
\* therefore takes a query as the last step of a behaviour.
Resolved == last.op \in {"getAppearance", "getFeatureAppearance", "isFeatureVisible"}

\* A call of the registration API, at most `max` of them: the registry
\* changes to `next`.
Register(max, call, next) ==
  /\ ~Resolved
  /\ nOps < max
  /\ nOps' = nOps + 1
  /\ fo' = next
  /\ last' = call

ignoreAnimationOverrides(max, Ignores) ==
  \E ignore \in Ignores :
    Register(max, NoCall,
             [fo EXCEPT !.ignoreAnimationOverrides = Append(@, ignore)])

setVisibleSubCategory(max, Ids) ==
  \E id \in Ids :
    Register(max, NoCall,
             [fo EXCEPT !.visibleSubCategories = @ \cup {id}])

setNeverDrawn(max, Ids) ==
  \E id \in Ids :
    Register(max, NoCall, [fo EXCEPT !.neverDrawn = @ \cup {id}])

setAlwaysDrawn(max, Ids) ==
  \E id \in Ids :
    Register(max, NoCall, [fo EXCEPT !.alwaysDrawn = @ \cup {id}])

setAnimationNodeNeverDrawn(max, Ids) ==
  \E id \in Ids :
    Register(max, NoCall,
             [fo EXCEPT !.neverDrawnAnimationNodes = @ \cup {id}])

\* copyIdSetToUint32Set clears the destination and adds every id.
setNeverDrawnSet(max, Ids) ==
  \E ids \in SUBSET Ids :
    Register(max, NoCall, [fo EXCEPT !.neverDrawn = ids])

setAlwaysDrawnSet(max, Ids) ==
  \E ids \in SUBSET Ids, exclusive \in BOOLEAN, ignoreSubCategory \in BOOLEAN :
    Register(max, NoCall,
             [fo EXCEPT !.alwaysDrawn = ids,
                        !.isAlwaysDrawnExclusive = exclusive,
                        !.alwaysDrawnIgnoresSubCategory = ignoreSubCategory])

\* The public field ignoreSubCategory, assigned by the caller.
setIgnoreSubCategory(max) ==
  \E b \in BOOLEAN :
    Register(max, NoCall, [fo EXCEPT !.ignoreSubCategory = b])

\* The protected view-flag fields, assigned by the subclass that initialises
\* the overrides from a view.
initFromViewFlags(max, Flags) ==
  \E f \in Flags :
    Register(max, NoCall,
             [fo EXCEPT !.constructions = f.constructions, !.dimensions = f.dimensions,
                        !.patterns = f.patterns, !.lineWeights = f.lineWeights])

\* The per-model set of subcategories of inverted visibility, populated by
\* the viewport.
addModelSubCategoryOverride(max, Models, SubCats) ==
  \E m \in Models, sc \in SubCats :
    Register(max, NoCall,
             [fo EXCEPT !.modelSubCategoryOverrides =
                MapSet(@, m, (IF m \in DOMAIN @ THEN @[m] ELSE {}) \cup {sc})])

\* override(args): the mapping that holds the entries of the target's kind.
OverrideMapName(kind) ==
  CASE kind = "elementId" -> "elementOverrides"
    [] kind = "modelId" -> "modelOverrides"
    [] kind = "subCategoryId" -> "subCategoryOverrides"

\* A variant whose mode 'extend' lets the new appearance prevail, as 'subsume'
\* does.
OverrideResult_NewPrevails(f, kind, id, appearance, onConflict) ==
  LET map == f[OverrideMapName(kind)]
      replace == onConflict = "replace"
      existing == IF replace THEN Undefined ELSE MapGet(map, id)
      app == IF IsDef(existing) THEN extendAppearance(Val(existing), appearance)
             ELSE appearance
  IN  IF kind = "elementId" /\ isNeverDrawn(f, id[1], id[2], 0) THEN f
      ELSE IF IsDef(existing) /\ onConflict = "skip" THEN f
      ELSE [f EXCEPT ![OverrideMapName(kind)] = MapSet(map, id, app)]

\* A variant whose default mode lets the existing entry prevail, as 'extend'
\* does.
OverrideResult_ExistingPrevails(f, kind, id, appearance, onConflict) ==
  LET map == f[OverrideMapName(kind)]
      replace == onConflict = "replace"
      existing == IF replace THEN Undefined ELSE MapGet(map, id)
      app == IF IsDef(existing) THEN extendAppearance(appearance, Val(existing))
             ELSE appearance
  IN  IF kind = "elementId" /\ isNeverDrawn(f, id[1], id[2], 0) THEN f
      ELSE IF IsDef(existing) /\ onConflict = "skip" THEN f
      ELSE [f EXCEPT ![OverrideMapName(kind)] = MapSet(map, id, app)]

\* override(args): the registry the call leaves.
OverrideResult(f, kind, id, appearance, onConflict) ==
  LET map == f[OverrideMapName(kind)]
      replace == onConflict = "replace"
      existing == IF replace THEN Undefined ELSE MapGet(map, id)
      app == IF IsDef(existing)
             THEN CASE onConflict = "extend" -> extendAppearance(appearance, Val(existing))
                    [] OTHER -> extendAppearance(Val(existing), appearance)
             ELSE appearance
  IN  IF kind = "elementId" /\ isNeverDrawn(f, id[1], id[2], 0) THEN f
      ELSE IF IsDef(existing) /\ onConflict = "skip" THEN f
      ELSE [f EXCEPT ![OverrideMapName(kind)] = MapSet(map, id, app)]

\* With `rec` the call's arguments are kept in `last`.
override(max, rec, Targets, Apps, Modes) ==
  \E t \in Targets, appearance \in Apps, onConflict \in Modes :
    Register(max,
             IF rec THEN [op |-> "override", kind |-> t[1], id |-> t[2],
                          appearance |-> appearance, onConflict |-> onConflict]
             ELSE NoCall,
             OverrideResult(fo, t[1], t[2], appearance, onConflict))

\* The deprecated overrideModel, overrideSubCategory and overrideElement: each
\* calls override() with onConflict 'replace' or 'skip'.  The call is kept in
\* `last`.
overrideModel(max, Ids, Apps) ==
  \E id \in Ids, app \in Apps, replaceExisting \in BOOLEAN :
    Register(max,
             [op |-> "overrideModel", kind |-> "modelId", id |-> id,
              appearance |-> app, replaceExisting |-> replaceExisting],
             OverrideResult(fo, "modelId", id, app,
                            IF replaceExisting THEN "replace" ELSE "skip"))

overrideSubCategory(max, Ids, Apps) ==
  \E id \in Ids, app \in Apps, replaceExisting \in BOOLEAN :
    Register(max,
             [op |-> "overrideSubCategory", kind |-> "subCategoryId", id |-> id,
              appearance |-> app, replaceExisting |-> replaceExisting],
             OverrideResult(fo, "subCategoryId", id, app,
                            IF replaceExisting THEN "replace" ELSE "skip"))

\* A variant that takes replaceExisting the wrong way round.
overrideElement_Inverted(max, Ids, Apps) ==
  \E id \in Ids, app \in Apps, replaceExisting \in BOOLEAN :
    Register(max,
             [op |-> "overrideElement", kind |-> "elementId", id |-> id,
              appearance |-> app, replaceExisting |-> replaceExisting],
             OverrideResult(fo, "elementId", id, app,
                            IF replaceExisting THEN "skip" ELSE "replace"))

overrideElement(max, Ids, Apps) ==
  \E id \in Ids, app \in Apps, replaceExisting \in BOOLEAN :
    Register(max,
             [op |-> "overrideElement", kind |-> "elementId", id |-> id,
              appearance |-> app, replaceExisting |-> replaceExisting],
             OverrideResult(fo, "elementId", id, app,
                            IF replaceExisting THEN "replace" ELSE "skip"))

overrideAnimationNode(max, Ids, Apps) ==
  \E id \in Ids, app \in Apps :
    Register(max, NoCall,
             [fo EXCEPT !.animationNodeOverrides = MapSet(@, id, app)])

\* With `rec` the call's arguments are kept in `last`.
setDefaultOverrides(max, rec, Apps) ==
  \E appearance \in Apps, replaceExisting \in BOOLEAN :
    Register(max,
             IF rec THEN [op |-> "setDefaultOverrides", appearance |-> appearance,
                          replaceExisting |-> replaceExisting]
             ELSE NoCall,
             IF replaceExisting \/ ~overridesSymbology(appearance)
             THEN [fo EXCEPT !.defaultOverrides = appearance]
             ELSE fo)

\* A query of getAppearance for one of `Features`: the registry is left as
\* it is; the call and what it returned are kept in `last`.
Resolve(f, q) ==
  getAppearance(f, q.elem[1], q.elem[2], q.subcat[1], q.subcat[2], q.geomClass,
                q.model[1], q.model[2], q.type, q.animationNodeId)

QueryGetAppearance(Features) ==
  \E q \in Features :
    /\ ~Resolved
    /\ last' = [op |-> "getAppearance", q |-> q, ret |-> Resolve(fo, q)]
    /\ UNCHANGED <<fo, nOps>>

\* A query, and the same query once more with no registration in between, at
\* most `max` times in all.  `n` counts the calls.
QueryCount == IF Resolved THEN last.n ELSE 0

\* The arguments a call of `op` may take: any of Args at first, those of the
\* call before when that was a call of `op`.
ArgsOf(op, Args, args) ==
  IF ~Resolved THEN Args
  ELSE IF last.op = op THEN {args} ELSE {}

Query(max, call) ==
  /\ QueryCount < max
  /\ last' = [call EXCEPT !.n = QueryCount + 1]
  /\ UNCHANGED <<fo, nOps>>

\* A variant that remembers a feature found not visible by adding its element
\* to neverDrawn.
CallGetAppearance_Remembering(max, Features) ==
  \E q \in ArgsOf("getAppearance", Features, last.q) :
    /\ QueryCount < max
    /\ last' = [op |-> "getAppearance", q |-> q, ret |-> Resolve(fo, q),
                n |-> QueryCount + 1]
    /\ fo' = [fo EXCEPT !.neverDrawn =
                @ \cup (IF Resolve(fo, q) = Undefined THEN {q.elem} ELSE {})]
    /\ UNCHANGED nOps

CallGetAppearance(max, Features) ==
  \E q \in ArgsOf("getAppearance", Features, last.q) :
    Query(max, [op |-> "getAppearance", q |-> q, ret |-> Resolve(fo, q), n |-> 0])

CallGetFeatureAppearance(max, Feats, Models, Types, Nodes) ==
  \E a \in ArgsOf("getFeatureAppearance",
                  [feature : Feats, modelId : Models, type : Types,
                   animationNodeId : Nodes],
                  last.args) :
    Query(max, [op |-> "getFeatureAppearance", args |-> a,
                ret |-> getFeatureAppearance(fo, a.feature, a.modelId, a.type,
                                             a.animationNodeId),
                n |-> 0])

CallIsFeatureVisible(max, Feats) ==
  \E feature \in ArgsOf("isFeatureVisible", Feats, last.feature) :
    Query(max, [op |-> "isFeatureVisible", feature |-> feature,
                ret |-> isFeatureVisible(fo, feature), n |-> 0])

\* chain(first, second).getFeatureAppearance(fo, the feature q), as the last
\* step of a behaviour.
CallChain(Providers, Features) ==
  /\ ~Resolved
  /\ \E first \in Providers, second \in Providers, q \in Features :
     \E base \in {Resolve(fo, q)}, provider \in {chain(first, second)} :
     \E app \in {ProviderAppearance(provider, BaseSource(base))} :
       last' = [op |-> "getFeatureAppearance", first |-> first, second |-> second,
                provider |-> provider, q |-> q, ret |-> app.ret, calls |-> app.calls]
  /\ UNCHANGED <<fo, nOps>>

\* A query of getAppearance, kept in `last` with the contents of the argument
\* object at each call of a registered function (`seen`).
QueryObserved(Features) ==
  /\ ~Resolved
  /\ \E q \in Features :
       last' = [op |-> "getAppearance", q |-> q, ret |-> Resolve(fo, q),
                seen |-> IF ConsultsIgnore(fo, q.elem[1], q.elem[2], q.type,
                                           q.animationNodeId)
                         THEN IgnoreArgs(fo, 1, [elementId |-> q.elem,
                                                 animationNodeId |-> q.animationNodeId])
                         ELSE <<>>]
  /\ UNCHANGED <<fo, nOps>>

(***************************************************************************)
(* The callers' inputs                                                     *)
(***************************************************************************)
E1 == <<1, 0>>
E2 == <<2, 0>>
M1 == <<16, 0>>
M2 == <<17, 0>>
S1 == <<32, 0>>

\* Appearances callers register, each built by fromJSON from its props.
AppNothing == fromJSON(NoProps)
AppWeight2 == fromJSON([NoProps EXCEPT !.weight = Def(2)])
AppWeight7 ==
  fromJSON([NoProps EXCEPT !.weight = Def(7), !.linePixels = Def("Code2"),
                           !.emphasized = Def(TRUE)])
AppRed ==
  fromJSON([NoProps EXCEPT !.rgb = Def("red"), !.weight = Def(3),
                           !.transparency = Def(50000)])
AppClear ==
  fromJSON([NoProps EXCEPT !.transparency = Def(150000),
                           !.viewDependentTransparency = Def(TRUE)])

Features(Elems, SubCats, Classes, Models, Types, Nodes) ==
  [elem : Elems, subcat : SubCats, geomClass : Classes, model : Models,
   type : Types, animationNodeId : Nodes]

ViewFlags ==
  [constructions : BOOLEAN, dimensions : BOOLEAN, patterns : BOOLEAN,
   lineWeights : BOOLEAN]

(***************************************************************************)
(* Spec: the visibility rules.  Every registration call that decides       *)
(* whether a feature is drawn, at most MaxOps of them, then a query.       *)
(***************************************************************************)
MaxOps == 2

VisElements == {E1, E2}
VisAppearances == {AppWeight2, AppClear}
VisTargets == {<<"elementId", E1>>, <<"modelId", M1>>, <<"subCategoryId", S1>>}
VisFeatures ==
  Features({InvalidId, E1, E2}, {InvalidId, S1}, GeometryClass, {M1},
           BatchType, {0, 1})

Next ==
  \/ setNeverDrawn(MaxOps, VisElements)
  \/ setAlwaysDrawn(MaxOps, VisElements)
  \/ setNeverDrawnSet(MaxOps, VisElements)
  \/ setAlwaysDrawnSet(MaxOps, VisElements)
  \/ setAnimationNodeNeverDrawn(MaxOps, {0, 1})
  \/ setVisibleSubCategory(MaxOps, {S1})
  \/ setIgnoreSubCategory(MaxOps)
  \/ initFromViewFlags(MaxOps, ViewFlags)
  \/ addModelSubCategoryOverride(MaxOps, {M1}, {S1})
  \/ override(MaxOps, FALSE, VisTargets, VisAppearances, OnConflict)
  \/ overrideAnimationNode(MaxOps, {1}, VisAppearances)
  \/ setDefaultOverrides(MaxOps, FALSE, VisAppearances)
  \/ QueryGetAppearance(VisFeatures)

Spec == Init /\ [][Next]_vars

(***************************************************************************)
(* SpecLayers: the precedence of the override layers.  Every registration  *)
(* call that supplies or gates an appearance, at most MaxLayerOps of them, *)
(* then a query.                                                           *)
(***************************************************************************)
MaxLayerOps == 4

LayerAppearances == {AppNothing, AppWeight2, AppWeight7, AppRed}
LayerTargets == {<<"elementId", E1>>, <<"modelId", M1>>, <<"subCategoryId", S1>>}
LayerFlags == {f \in ViewFlags : ~f.constructions /\ ~f.dimensions /\ ~f.patterns}
LayerFeatures ==
  Features({InvalidId, E1}, {InvalidId, S1}, {"Primary"}, {M1}, BatchType, {0, 1})

NextLayers ==
  \/ override(MaxLayerOps, FALSE, LayerTargets, LayerAppearances, OnConflict)
  \/ overrideAnimationNode(MaxLayerOps, {1}, LayerAppearances)
  \/ setDefaultOverrides(MaxLayerOps, FALSE, LayerAppearances)
  \/ setVisibleSubCategory(MaxLayerOps, {S1})
  \/ setIgnoreSubCategory(MaxLayerOps)
  \/ initFromViewFlags(MaxLayerOps, LayerFlags)
  \/ QueryGetAppearance(LayerFeatures)

SpecLayers == Init /\ [][NextLayers]_vars

(***************************************************************************)
(* SpecRegister: the registration of overrides.  Calls of override() and   *)
(* of the never-drawn setters, at most MaxRegisterOps of them, each        *)
(* override() call kept in `last` with its arguments.                      *)
(***************************************************************************)
MaxRegisterOps == 3

RegisterAppearances == {AppNothing, AppWeight2, AppWeight7, AppRed, AppClear}

\* onConflict as a caller passes it: one of the four modes, or left out.
RegisterModes == OnConflict \cup {"undefined"}

NextRegister ==
  \/ override(MaxRegisterOps, TRUE, LayerTargets, RegisterAppearances, RegisterModes)
  \/ overrideModel(MaxRegisterOps, {M1}, RegisterAppearances)
  \/ overrideSubCategory(MaxRegisterOps, {S1}, RegisterAppearances)
  \/ overrideElement(MaxRegisterOps, {E1}, RegisterAppearances)
  \/ setNeverDrawn(MaxRegisterOps, {E1})
  \/ setAnimationNodeNeverDrawn(MaxRegisterOps, {0, 1})

SpecRegister == Init /\ [][NextRegister]_vars

(***************************************************************************)
(* SpecAnimation: element, model and animation-node overrides and the      *)
(* functions that suppress animation-node overrides, at most               *)
(* MaxAnimationOps registrations, then a query.                            *)
(***************************************************************************)
MaxAnimationOps == 3

AnimationAppearances == {AppNothing, AppWeight2, AppWeight7, AppRed}
AnimationTargets == {<<"elementId", E1>>, <<"modelId", M1>>}
AnimationFeatures ==
  Features({InvalidId, E1, E2}, {InvalidId}, {"Primary"}, {M1}, BatchType, {0, 1})

NextAnimation ==
  \/ override(MaxAnimationOps, FALSE, AnimationTargets, AnimationAppearances, OnConflict)
  \/ overrideAnimationNode(MaxAnimationOps, {0, 1}, AnimationAppearances)
  \/ ignoreAnimationOverrides(MaxAnimationOps, IgnoreFunctions)
  \/ QueryGetAppearance(AnimationFeatures)

SpecAnimation == Init /\ [][NextAnimation]_vars

(***************************************************************************)
(* SpecSubCategory: the subcategory gate.  The visible subcategories, the  *)
(* per-model inversions, the always-drawn set, ignoreSubCategory, the      *)
(* never-drawn set, the class toggles and model and subcategory overrides, *)
(* at most MaxSubCategoryOps registrations, then a query.                  *)
(***************************************************************************)
MaxSubCategoryOps == 3

SubCategoryTargets == {<<"subCategoryId", S1>>, <<"modelId", M1>>}
SubCategoryAppearances == {AppWeight2, AppClear}
SubCategoryFlags ==
  [constructions : BOOLEAN, dimensions : {FALSE}, patterns : {FALSE},
   lineWeights : {TRUE}]
SubCategoryFeatures ==
  Features({InvalidId, E1, E2}, {InvalidId, S1}, {"Primary", "Construction"},
           {M1, M2}, BatchType, {0})

NextSubCategory ==
  \/ setVisibleSubCategory(MaxSubCategoryOps, {S1})
  \/ addModelSubCategoryOverride(MaxSubCategoryOps, {M1}, {S1})
  \/ setAlwaysDrawnSet(MaxSubCategoryOps, {E1})
  \/ setNeverDrawn(MaxSubCategoryOps, {E1})
  \/ setIgnoreSubCategory(MaxSubCategoryOps)
  \/ initFromViewFlags(MaxSubCategoryOps, SubCategoryFlags)
  \/ override(MaxSubCategoryOps, FALSE, SubCategoryTargets, SubCategoryAppearances,
              {"replace"})
  \/ QueryGetAppearance(SubCategoryFeatures)

SpecSubCategory == Init /\ [][NextSubCategory]_vars

(***************************************************************************)
(* SpecQuery: the three queries side by side.  Registrations of every kind *)
(* that decides whether a feature is drawn or how, at most MaxQueryOps of  *)
(* them, then at most MaxQueries queries.                                  *)
(***************************************************************************)
MaxQueryOps == 2
MaxQueries == 2

QueryTargets == {<<"elementId", E1>>, <<"modelId", M1>>, <<"subCategoryId", S1>>}
QueryAppearances == {AppWeight2, AppClear}

\* The flags after construction, or with one of them assigned.
QueryFlags ==
  {f \in ViewFlags :
     Cardinality({k \in {"constructions", "dimensions", "patterns"} : f[k]}
                 \cup {k \in {"lineWeights"} : ~f[k]}) <= 1}

QueryFeatures ==
  Features({InvalidId, E1, E2}, {InvalidId, S1}, GeometryClass, {M1},
           {"Primary", "VolumeClassifier"}, {0, 1})

\* Feature: elementId, subCategoryId, geometryClass.
QueryFeats ==
  [elementId : {InvalidId, E1, E2}, subCategoryId : {InvalidId, S1},
   geometryClass : GeometryClass]

NextQuery ==
  \/ setNeverDrawn(MaxQueryOps, {E1})
  \/ setAlwaysDrawnSet(MaxQueryOps, {E1})
  \/ setAnimationNodeNeverDrawn(MaxQueryOps, {0, 1})
  \/ setVisibleSubCategory(MaxQueryOps, {S1})
  \/ setIgnoreSubCategory(MaxQueryOps)
  \/ initFromViewFlags(MaxQueryOps, QueryFlags)
  \/ addModelSubCategoryOverride(MaxQueryOps, {M1}, {S1})
  \/ override(MaxQueryOps, FALSE, QueryTargets, QueryAppearances, {"replace"})
  \/ overrideAnimationNode(MaxQueryOps, {1}, {AppWeight2})
  \/ setDefaultOverrides(MaxQueryOps, FALSE, {AppWeight2})
  \/ CallGetAppearance(MaxQueries, QueryFeatures)
  \/ CallGetFeatureAppearance(MaxQueries, QueryFeats, {M1},
                              {Undefined, Def("PlanarClassifier")}, {Undefined, Def(1)})
  \/ CallIsFeatureVisible(MaxQueries, QueryFeats)

SpecQuery == Init /\ [][NextQuery]_vars

(***************************************************************************)
(* SpecProvider: chained providers over the registry.  Overrides of an     *)
(* element and a model, at most MaxProviderOps of them, then a query of a  *)
(* chain of two providers made by supplement().                            *)
(***************************************************************************)
MaxProviderOps == 2

ProviderTargets == {<<"elementId", E1>>, <<"modelId", M1>>}
ProviderAppearances == {AppWeight2, AppRed, AppClear}
ProviderFeatures ==
  Features({E1, E2}, {InvalidId}, {"Primary"}, {M1}, {"Primary", "PlanarClassifier"}, {0})

\* The objects of two calls of supplement().
Providers == {supplement(f, obj) : f \in SupplementFunctions, obj \in {1, 2}}

NextProvider ==
  \/ override(MaxProviderOps, FALSE, ProviderTargets, ProviderAppearances, {"replace"})
  \/ CallChain({p \in Providers : p.obj = 1} \cup {p \in Providers : p.obj = 2},
               ProviderFeatures)

SpecProvider == Init /\ [][NextProvider]_vars

(***************************************************************************)
(* SpecInvalid: invalid identifiers.  Registrations that name the invalid  *)
(* id as an element or a subcategory, next to some that name valid ids, at *)
(* most MaxInvalidOps of them, then a query.                               *)
(***************************************************************************)
MaxInvalidOps == 3

InvalidTargets ==
  {<<"elementId", InvalidId>>, <<"subCategoryId", InvalidId>>,
   <<"subCategoryId", S1>>, <<"modelId", M1>>}
InvalidAppearances == {AppWeight2, AppRed}
InvalidFeatures ==
  Features({InvalidId, E1}, {InvalidId, S1}, {"Primary"}, {M1}, {"Primary"}, {0, 1})

NextInvalid ==
  \/ setNeverDrawn(MaxInvalidOps, {InvalidId})
  \/ setAlwaysDrawnSet(MaxInvalidOps, {InvalidId, E1})
  \/ setAnimationNodeNeverDrawn(MaxInvalidOps, {1})
  \/ setVisibleSubCategory(MaxInvalidOps, {InvalidId, S1})
  \/ addModelSubCategoryOverride(MaxInvalidOps, {M1}, {InvalidId})
  \/ override(MaxInvalidOps, FALSE, InvalidTargets, InvalidAppearances, {"replace"})
  \/ setDefaultOverrides(MaxInvalidOps, FALSE, {AppWeight7})
  \/ QueryGetAppearance(InvalidFeatures)

SpecInvalid == Init /\ [][NextInvalid]_vars

(***************************************************************************)
(* SpecDefaults: the default overrides.  Calls of setDefaultOverrides, at  *)
(* most MaxDefaultsOps of them, each kept in `last` with its arguments,    *)
(* then a query.                                                           *)
(***************************************************************************)
MaxDefaultsOps == 3

DefaultsAppearances == {AppNothing, AppWeight2, AppWeight7, AppRed, AppClear}
DefaultsFeatures ==
  Features({InvalidId, E1}, {InvalidId}, {"Primary"}, {M1}, BatchType, {0})

NextDefaults ==
  \/ setDefaultOverrides(MaxDefaultsOps, TRUE, DefaultsAppearances)
  \/ QueryGetAppearance(DefaultsFeatures)

SpecDefaults == Init /\ [][NextDefaults]_vars

(***************************************************************************)
(* SpecReentrant: functions that suppress animation-node overrides, one of *)
(* which calls getAppearance itself.  At most MaxReentrantOps              *)
(* registrations, then a query kept with what the functions were handed.   *)
(***************************************************************************)
MaxReentrantOps == 4

ReentrantFeatures ==
  Features({InvalidId, E1, E2}, {InvalidId}, {"Primary"}, {M1},
           {"Primary", "PlanarClassifier"}, {0, 1, 2})

NextReentrant ==
  \/ ignoreAnimationOverrides(MaxReentrantOps,
                              ReentrantFunctions \cup {"ignoreNone", "ignoreElement1"})
  \/ overrideAnimationNode(MaxReentrantOps, {1, 2}, {AppRed})
  \/ override(MaxReentrantOps, FALSE, {<<"elementId", E1>>}, {AppWeight2}, {"replace"})
  \/ setNeverDrawn(MaxReentrantOps, {E2})
  \/ QueryObserved(ReentrantFeatures)

SpecReentrant == Init /\ [][NextReentrant]_vars

(***************************************************************************)
(* SpecAppearance: FeatureAppearance on its own.  A behaviour starts with   *)
(* the arguments of one call in `last` (the props of a fromJSON or clone    *)
(* call, or the props of the two operands of a merge) and makes that call; *)
(* the registry is not involved.                                           *)
(***************************************************************************)
PropsOf(Rgbs, Weights, Transparencies, Vdts, LinePixels, Flags) ==
  { [rgb |-> r, weight |-> w, transparency |-> t, viewDependentTransparency |-> v,
     linePixels |-> l, ignoresMaterial |-> f[1], nonLocatable |-> f[2],
     emphasized |-> f[3]] :
      r \in Rgbs, w \in Weights, t \in Transparencies, v \in Vdts,
      l \in LinePixels, f \in Flags }

\* Props given to fromJSON and to the appearance that is cloned: weights and
\* transparencies inside, outside and on the bounds of their ranges.
ConstructProps ==
  PropsOf({Undefined, Def("red")},
          {Undefined, Def(0), Def(1), Def(5), Def(32), Def(100)},
          {Undefined, Def(-50000), Def(5), Def(10), Def(50000), Def(99990),
           Def(99995), Def(150000)},
          {Undefined, Def(TRUE)},
          {Undefined},
          {<<Undefined, Undefined, Undefined>>, <<Undefined, Def(TRUE), Undefined>>})

\* changedProps of clone: any of weight, transparency and
\* viewDependentTransparency, present with a value or as undefined.
ChangedProps ==
  { [k \in K |-> p[k]] :
      p \in [weight : {Undefined, Def(0), Def(100)},
             transparency : {Undefined, Def(-50000), Def(99990), Def(99995)},
             viewDependentTransparency : {Undefined, Def(TRUE)}],
      K \in SUBSET {"weight", "transparency", "viewDependentTransparency"} }

\* Props of the two operands of extendAppearance.
MergeProps ==
  PropsOf({Undefined, Def("red"), Def("blue")},
          {Undefined, Def(5), Def(100)},
          {Undefined, Def(50000), Def(150000)},
          {Undefined, Def(TRUE)},
          {Undefined, Def("Code2")},
          {<<Undefined, Undefined, Undefined>>, <<Undefined, Def(TRUE), Undefined>>,
           <<Def(TRUE), Undefined, Def(TRUE)>>})

InitAppearance ==
  /\ fo = NewFeatureOverrides
  /\ nOps = 0
  /\ \/ last \in [op : {"construct"}, props : ConstructProps]
     \/ last \in [op : {"merge"}, a : MergeProps, b : MergeProps]

CallFromJSON ==
  /\ last.op = "construct"
  /\ last' = [op |-> "fromJSON", props |-> last.props, ret |-> fromJSON(last.props)]
  /\ UNCHANGED <<fo, nOps>>

CallClone ==
  \E changedProps \in ChangedProps :
    /\ last.op = "construct"
    /\ last' = [op |-> "clone", props |-> last.props, changedProps |-> changedProps,
                ret |-> clone(fromJSON(last.props), changedProps)]
    /\ UNCHANGED <<fo, nOps>>

\* a.extendAppearance(b)
CallExtendAppearance ==
  /\ last.op = "merge"
  /\ LET a == fromJSON(last.a)
         b == fromJSON(last.b)
     IN  last' = [op |-> "extendAppearance", a |-> a, b |-> b,
                  ret |-> extendAppearance(a, b)]
  /\ UNCHANGED <<fo, nOps>>

NextAppearance == CallFromJSON \/ CallClone \/ CallExtendAppearance

SpecAppearance == InitAppearance /\ [][NextAppearance]_vars

(***************************************************************************)
(* What the properties speak of                                            *)
(***************************************************************************)
Queried == last.op = "getAppearance"
IsClassifier(type) == type \in {"VolumeClassifier", "PlanarClassifier"}
ValidId(id) == isValidUint32Pair(id[1], id[2])
Clear(app) == app.transparency = Def(TranspOne)
Defines(app, a) == IsDef(app) /\ IsDef(Val(app)[a])

\* The overrides registered for the identifiers of feature q.
ModelOvr(f, q) == MapGet(f.modelOverrides, q.model)
ElemOvr(f, q) == MapGet(f.elementOverrides, q.elem)
NodeOvr(f, q) == MapGet(f.animationNodeOverrides, q.animationNodeId)
SubOvr(f, q) == MapGet(f.subCategoryOverrides, q.subcat)

\* The subcategory of q is in the visible set, inverted where q's model
\* inverts it.
VisibleInModel(f, q) ==
  (q.subcat \in f.visibleSubCategories)
    # (q.model \in DOMAIN f.modelSubCategoryOverrides
         /\ q.subcat \in f.modelSubCategoryOverrides[q.model])

(***************************************************************************)
(* Visibility (Spec)                                                       *)
(***************************************************************************)

\* C1: a feature of an ordinary batch whose valid element id is in neverDrawn
\* at query time resolves to not-visible, also when the element is in
\* alwaysDrawn, whatever the overrides, flags and geometry class.
C1_NeverDrawnPrecedence ==
  (Queried /\ ~IsClassifier(last.q.type) /\ ValidId(last.q.elem)
     /\ last.q.elem \in fo.neverDrawn)
  => last.ret = Undefined

C1_Witness ==
  /\ Queried /\ ~IsClassifier(last.q.type) /\ ValidId(last.q.elem)
  /\ last.q.elem \in fo.neverDrawn /\ last.q.elem \in fo.alwaysDrawn
  /\ last.ret = Undefined

\* C6 as stated: while isAlwaysDrawnExclusive is true, every feature of an
\* ordinary batch whose element id is not in alwaysDrawn is not-visible.
C6_Original ==
  (Queried /\ ~IsClassifier(last.q.type) /\ fo.isAlwaysDrawnExclusive
     /\ last.q.elem \notin fo.alwaysDrawn)
  => last.ret = Undefined

\* C6, amended: while isAlwaysDrawnExclusive is true, every feature of an
\* ordinary batch whose element id is valid and not in alwaysDrawn is
\* not-visible.
C6_Exclusive ==
  (Queried /\ ~IsClassifier(last.q.type) /\ fo.isAlwaysDrawnExclusive
     /\ ValidId(last.q.elem) /\ last.q.elem \notin fo.alwaysDrawn)
  => last.ret = Undefined

\* Element F is hidden by exclusivity alone: another element is always
\* drawn, and nothing else hides F.
C6_Witness ==
  /\ Queried /\ ~IsClassifier(last.q.type) /\ fo.isAlwaysDrawnExclusive
  /\ ValidId(last.q.elem) /\ last.q.elem \notin fo.alwaysDrawn
  /\ fo.alwaysDrawn # {}
  /\ last.q.elem \notin fo.neverDrawn
  /\ last.q.animationNodeId \notin fo.neverDrawnAnimationNodes
  /\ ~ValidId(last.q.subcat) /\ last.q.geomClass = "Primary"
  /\ last.ret = Undefined

\* The always-drawn case of C7: a valid element in alwaysDrawn and not in
\* neverDrawn, its animation node not never-drawn, and its subcategory
\* visible unless alwaysDrawnIgnoresSubCategory lifts that gate.
C7_Case ==
  /\ Queried /\ ~IsClassifier(last.q.type) /\ ValidId(last.q.elem)
  /\ last.q.elem \in fo.alwaysDrawn /\ last.q.elem \notin fo.neverDrawn
  /\ last.q.animationNodeId \notin fo.neverDrawnAnimationNodes
  /\ \/ fo.alwaysDrawnIgnoresSubCategory
     \/ fo.ignoreSubCategory
     \/ ~ValidId(last.q.subcat)
     \/ VisibleInModel(fo, last.q)

\* C7 as stated: an always-drawn feature gets an appearance, whatever its
\* geometry class, the class toggles and (while alwaysDrawnIgnoresSubCategory)
\* the visibility of its subcategory.
C7_Original == C7_Case => IsDef(last.ret)

\* C7, amended: it gets an appearance provided none of the overrides
\* registered for its model, element, animation node and subcategory, nor the
\* default overrides, is fully transparent.
C7_AlwaysDrawnDisplayed ==
  (C7_Case
     /\ \A o \in {ModelOvr(fo, last.q), ElemOvr(fo, last.q), NodeOvr(fo, last.q),
                  SubOvr(fo, last.q), Def(fo.defaultOverrides)} :
           IsDef(o) => ~Clear(Val(o)))
  => IsDef(last.ret)

\* An always-drawn construction element of a subcategory that is not visible
\* is displayed while constructions are off.
C7_Witness ==
  /\ C7_Case
  /\ last.q.geomClass = "Construction" /\ ~fo.constructions
  /\ ValidId(last.q.subcat) /\ ~fo.ignoreSubCategory /\ ~VisibleInModel(fo, last.q)
  /\ IsDef(last.ret)

\* C8: for an ordinary batch no appearance of transparency 1.0 is returned (a
\* feature whose model override is fully transparent is not-visible); for a
\* classifier batch an appearance is returned, the fully transparent one of
\* such a model override as it is.
C8_FullTransparency ==
  Queried =>
    LET m == ModelOvr(fo, last.q)
        clearModel == IsDef(m) /\ Clear(Val(m))
    IN  IF IsClassifier(last.q.type)
        THEN IsDef(last.ret) /\ (clearModel => Clear(Val(last.ret)))
        ELSE /\ IsDef(last.ret) => ~Clear(Val(last.ret))
             /\ clearModel => last.ret = Undefined

\* A classifier query that returned a fully transparent appearance, which the
\* same query of an ordinary batch does not return.
C8_Witness ==
  /\ Queried /\ IsClassifier(last.q.type)
  /\ IsDef(last.ret) /\ Clear(Val(last.ret))
  /\ Resolve(fo, [last.q EXCEPT !.type = "Primary", !.geomClass = "Primary"]) = Undefined
  /\ ~ValidId(last.q.elem) /\ ~ValidId(last.q.subcat)

\* The registry with nothing of the visibility machinery set.
Unhidden(f) ==
  [f EXCEPT !.neverDrawn = {}, !.neverDrawnAnimationNodes = {}, !.alwaysDrawn = {},
            !.isAlwaysDrawnExclusive = FALSE,
            !.constructions = TRUE, !.dimensions = TRUE, !.patterns = TRUE,
            !.visibleSubCategories = {}, !.modelSubCategoryOverrides = EmptyMap]

\* C9: for a classifier batch an appearance is always returned, and it is the
\* one returned with neverDrawn, neverDrawnAnimationNodes, alwaysDrawn,
\* isAlwaysDrawnExclusive, the class toggles, the visible subcategories and
\* their per-model inversions all reset, for every geometry class.
C9_ClassifierNeverHidden ==
  (Queried /\ IsClassifier(last.q.type))
  => /\ IsDef(last.ret)
     /\ \A g \in GeometryClass :
          Resolve(Unhidden(fo), [last.q EXCEPT !.geomClass = g]) = last.ret

\* A classifier feature of a never-drawn element is returned, where the same
\* feature of an ordinary batch is hidden.
C9_Witness ==
  /\ Queried /\ IsClassifier(last.q.type) /\ IsDef(last.ret)
  /\ ValidId(last.q.elem) /\ last.q.elem \in fo.neverDrawn
  /\ Resolve(fo, [last.q EXCEPT !.type = "Primary"]) = Undefined

(***************************************************************************)
(* Precedence of the layers (SpecLayers)                                   *)
(***************************************************************************)

\* The element layer getAppearance consults for q: none for an invalid
\* element id of an ordinary batch.
ElemLayer(f, q) ==
  IF IsClassifier(q.type) \/ ValidId(q.elem)
  THEN getElementOverrides(f, q.elem[1], q.elem[2], q.animationNodeId)
  ELSE Undefined

\* The weight getAppearance starts from on the primary path.
Seed(f, q, a) ==
  IF a = "weight" /\ ~IsClassifier(q.type) /\ ~f.lineWeights
  THEN Def(MinWeight) ELSE Undefined

\* C2 as stated: where the model, element and subcategory overrides of a
\* non-classifier feature each define an aspect, the appearance returned has
\* the element override's value for it.
C2_Original ==
  \A a \in Aspects :
    (Queried /\ ~IsClassifier(last.q.type) /\ IsDef(last.ret)
       /\ ValidId(last.q.elem) /\ ValidId(last.q.subcat)
       /\ Defines(ModelOvr(fo, last.q), a) /\ Defines(ElemOvr(fo, last.q), a)
       /\ Defines(SubOvr(fo, last.q), a))
    => Val(last.ret)[a] = Val(ElemOvr(fo, last.q))[a]

\* C2, amended: where the element and subcategory overrides of a
\* non-classifier feature each define an aspect (lineWeights enabled if it is
\* the weight), the appearance returned has the model override's value for it
\* if the model override defines it too, and the element override's otherwise.
C2_ElementBelowModel ==
  \A a \in Aspects :
    (Queried /\ ~IsClassifier(last.q.type) /\ IsDef(last.ret)
       /\ ValidId(last.q.elem) /\ ValidId(last.q.subcat)
       /\ (a = "weight" => fo.lineWeights)
       /\ Defines(ElemOvr(fo, last.q), a) /\ Defines(SubOvr(fo, last.q), a))
    => Val(last.ret)[a] =
         IF Defines(ModelOvr(fo, last.q), a) THEN Val(ModelOvr(fo, last.q))[a]
         ELSE Val(ElemOvr(fo, last.q))[a]

\* Model, element and subcategory overrides of three different weights: the
\* model's weight is returned.
C2_Witness ==
  /\ Queried /\ ~IsClassifier(last.q.type) /\ IsDef(last.ret) /\ fo.lineWeights
  /\ ValidId(last.q.elem) /\ ValidId(last.q.subcat) /\ ~fo.ignoreSubCategory
  /\ Defines(ModelOvr(fo, last.q), "weight") /\ Defines(ElemOvr(fo, last.q), "weight")
  /\ Defines(SubOvr(fo, last.q), "weight")
  /\ Val(ModelOvr(fo, last.q)).weight # Val(ElemOvr(fo, last.q)).weight
  /\ Val(ModelOvr(fo, last.q)).weight # Val(SubOvr(fo, last.q)).weight
  /\ Val(ElemOvr(fo, last.q)).weight # Val(SubOvr(fo, last.q)).weight
  /\ Val(last.ret).weight = Val(ModelOvr(fo, last.q)).weight

\* C3: with lineWeights enabled, the appearance getAppearance returns has, for
\* every aspect the model override of the feature's model defines, the model
\* override's value, whatever the element, animation-node and subcategory
\* overrides define for it.
C3_ModelHighest ==
  \A a \in Aspects :
    (Queried /\ fo.lineWeights /\ IsDef(last.ret) /\ Defines(ModelOvr(fo, last.q), a))
    => Val(last.ret)[a] = Val(ModelOvr(fo, last.q))[a]

\* The model override prevails over an element and an animation-node
\* override that define other weights.
C3_Witness ==
  /\ Queried /\ fo.lineWeights /\ IsDef(last.ret) /\ ValidId(last.q.elem)
  /\ Defines(ModelOvr(fo, last.q), "weight") /\ Defines(ElemOvr(fo, last.q), "weight")
  /\ Defines(NodeOvr(fo, last.q), "weight")
  /\ Val(ElemOvr(fo, last.q)).weight # Val(ModelOvr(fo, last.q)).weight
  /\ Val(NodeOvr(fo, last.q)).weight # Val(ModelOvr(fo, last.q)).weight
  /\ Val(last.ret).weight = Val(ModelOvr(fo, last.q)).weight

\* The registry without the subcategory override of q.
WithoutSubOvr(f, q) ==
  [f EXCEPT !.subCategoryOverrides =
     [k \in (DOMAIN @) \ {q.subcat} |-> @[k]]]

\* An aspect the model override or the element layer of q defines.
LayerDefines(f, q, a) ==
  Defines(ModelOvr(f, q), a) \/ Defines(ElemLayer(f, q), a)

\* C4, first half: an aspect the model override or the element layer defines
\* is returned as it is without the subcategory override.
C4_NotUsed ==
  \A a \in Aspects :
    (Queried /\ IsDef(last.ret) /\ LayerDefines(fo, last.q, a))
    => Val(last.ret)[a] = Val(Resolve(WithoutSubOvr(fo, last.q), last.q))[a]

\* C4 as stated: the subcategory override's value is not used for an aspect an
\* applicable model, element or animation-node override defines, and an
\* aspect only the subcategory override of a visible subcategory defines is
\* returned.
C4_Original ==
  /\ C4_NotUsed
  /\ \A a \in Aspects :
       (Queried /\ IsDef(last.ret) /\ ValidId(last.q.subcat)
          /\ VisibleInModel(fo, last.q)
          /\ Defines(SubOvr(fo, last.q), a) /\ ~LayerDefines(fo, last.q, a))
       => Val(last.ret)[a] = Val(SubOvr(fo, last.q))[a]

\* C4, amended: the second half holds while ignoreSubCategory is false and,
\* for the weight of a non-classifier feature, lineWeights is enabled.
C4_SubCategoryFillsGaps ==
  /\ C4_NotUsed
  /\ \A a \in Aspects :
       (Queried /\ IsDef(last.ret) /\ ValidId(last.q.subcat)
          /\ VisibleInModel(fo, last.q)
          /\ ~fo.ignoreSubCategory
          /\ ((a = "weight" /\ ~IsClassifier(last.q.type)) => fo.lineWeights)
          /\ Defines(SubOvr(fo, last.q), a) /\ ~LayerDefines(fo, last.q, a))
       => Val(last.ret)[a] = Val(SubOvr(fo, last.q))[a]

\* No valid element; the model's weight is returned, not the subcategory's,
\* and the transparency only the subcategory override defines is returned.
C4_Witness ==
  /\ Queried /\ ~IsClassifier(last.q.type) /\ IsDef(last.ret) /\ ~ValidId(last.q.elem)
  /\ ValidId(last.q.subcat) /\ ~fo.ignoreSubCategory /\ fo.lineWeights
  /\ Defines(ModelOvr(fo, last.q), "weight") /\ Defines(SubOvr(fo, last.q), "weight")
  /\ Val(ModelOvr(fo, last.q)).weight # Val(SubOvr(fo, last.q)).weight
  /\ Val(last.ret).weight = Val(ModelOvr(fo, last.q)).weight
  /\ ~Defines(ModelOvr(fo, last.q), "transparency")
  /\ Defines(SubOvr(fo, last.q), "transparency")
  /\ Val(last.ret).transparency = Val(SubOvr(fo, last.q)).transparency

\* A model, element-layer or subcategory override was found for q on the
\* primary path.
Found(f, q) ==
  \/ IsDef(ModelOvr(f, q))
  \/ IsDef(ElemLayer(f, q))
  \/ (~f.ignoreSubCategory /\ ValidId(q.subcat) /\ IsDef(SubOvr(f, q)))

\* C5: for a non-classifier feature, if no model, element-layer or
\* subcategory override was found, the appearance returned is the starting
\* appearance with every aspect it leaves undefined taken from
\* defaultOverrides; if one was found, also one that overrides nothing, the
\* result is what it is with no default overrides set.
C5_DefaultSuppression ==
  (Queried /\ ~IsClassifier(last.q.type))
  => IF Found(fo, last.q)
     THEN last.ret = Resolve([fo EXCEPT !.defaultOverrides = defaults], last.q)
     ELSE IsDef(last.ret) =>
            \A a \in Aspects :
              Val(last.ret)[a] =
                IF IsDef(Seed(fo, last.q, a)) THEN Seed(fo, last.q, a)
                ELSE fo.defaultOverrides[a]

\* The defaults set a colour, the element override only a weight: the result
\* has the weight and no colour.
C5_Witness ==
  /\ Queried /\ ~IsClassifier(last.q.type) /\ IsDef(last.ret)
  /\ IsDef(fo.defaultOverrides.rgb)
  /\ ~IsDef(ModelOvr(fo, last.q)) /\ ~ValidId(last.q.subcat)
  /\ ValidId(last.q.elem) /\ IsDef(ElemOvr(fo, last.q))
  /\ ~IsDef(Val(ElemOvr(fo, last.q)).rgb)
  /\ ~IsDef(Val(last.ret).rgb)
  /\ Val(last.ret).weight = Val(ElemOvr(fo, last.q)).weight

(***************************************************************************)
(* Registration (SpecRegister)                                             *)
(***************************************************************************)

\* The step is an override() call in mode 'subsume', given or by default, on
\* a target that has an entry.
SubsumeOnEntry ==
  /\ last'.op = "override"
  /\ last'.onConflict \in {"subsume", "undefined"}
  /\ last'.id \in DOMAIN fo[OverrideMapName(last'.kind)]

\* After the step the target's entry has the new appearance's value for every
\* aspect the new appearance defines and the former entry's for the others.
SubsumeStored ==
  \A a \in Aspects :
    fo'[OverrideMapName(last'.kind)][last'.id][a] =
      IF IsDef(last'.appearance[a]) THEN last'.appearance[a]
      ELSE fo[OverrideMapName(last'.kind)][last'.id][a]

\* C10 as stated: override() in mode 'subsume', or with no mode given, on an
\* identifier that has an entry stores the new appearance's value for every
\* aspect it defines and the existing entry's value for the others.
C10_Original == [][SubsumeOnEntry => SubsumeStored]_vars

\* C10, amended: so it does unless the target is an element that is never
\* drawn (in neverDrawn, or animation node 0 is never drawn), for which the
\* call changes nothing.
C10_Subsume ==
  [][(SubsumeOnEntry
        /\ ~(last'.kind = "elementId"
               /\ (last'.id \in fo.neverDrawn \/ 0 \in fo.neverDrawnAnimationNodes)))
     => SubsumeStored]_vars

\* A subsume call has left an entry that is neither the new appearance nor
\* only the old one: the new weight, and a line pattern kept from before.
C10_Witness ==
  /\ last.op = "override" /\ last.onConflict \in {"subsume", "undefined"}
  /\ last.id \in DOMAIN fo[OverrideMapName(last.kind)]
  /\ LET stored == fo[OverrideMapName(last.kind)][last.id]
     IN  /\ stored # last.appearance
         /\ IsDef(last.appearance.weight) /\ stored.weight = last.appearance.weight
         /\ ~IsDef(last.appearance.linePixels) /\ IsDef(stored.linePixels)

\* The target of the override() call of this step is an element for which
\* isNeverDrawn(id, 0) holds before the call.
TargetNeverDrawn ==
  /\ last'.kind = "elementId"
  /\ (last'.id \in fo.neverDrawn \/ 0 \in fo.neverDrawnAnimationNodes)

\* The step is an override() call in mode 'extend' on a target that has an
\* entry.
ExtendOnEntry ==
  /\ last'.op = "override"
  /\ last'.onConflict = "extend"
  /\ last'.id \in DOMAIN fo[OverrideMapName(last'.kind)]

\* After the step the target's entry has the former entry's value for every
\* aspect the former entry defines and the new appearance's for the others.
ExtendStored ==
  \A a \in Aspects :
    fo'[OverrideMapName(last'.kind)][last'.id][a] =
      IF IsDef(fo[OverrideMapName(last'.kind)][last'.id][a])
      THEN fo[OverrideMapName(last'.kind)][last'.id][a]
      ELSE last'.appearance[a]

\* C11 as stated: override() in mode 'extend' on an identifier that has an
\* entry keeps the existing entry's value for every aspect it defines and
\* takes the new appearance's value for the aspects it leaves undefined.
C11_Original == [][ExtendOnEntry => ExtendStored]_vars

\* C11, amended: so it does unless the target is an element that is never
\* drawn (in neverDrawn, or animation node 0 is never drawn), for which the
\* call changes nothing.
C11_Extend == [][(ExtendOnEntry /\ ~TargetNeverDrawn) => ExtendStored]_vars

\* An extend call has left an entry with a weight other than the new
\* appearance's and with the new appearance's line pattern.
C11_Witness ==
  /\ last.op = "override" /\ last.onConflict = "extend"
  /\ ~(last.kind = "elementId"
         /\ (last.id \in fo.neverDrawn \/ 0 \in fo.neverDrawnAnimationNodes))
  /\ last.id \in DOMAIN fo[OverrideMapName(last.kind)]
  /\ LET stored == fo[OverrideMapName(last.kind)][last.id]
     IN  /\ IsDef(last.appearance.weight) /\ IsDef(stored.weight)
         /\ stored.weight # last.appearance.weight
         /\ IsDef(last.appearance.linePixels)
         /\ stored.linePixels = last.appearance.linePixels

\* The step is a call of override() or of one of its deprecated wrappers.
OverrideCall ==
  last'.op \in {"override", "overrideModel", "overrideSubCategory", "overrideElement"}

\* The conflict mode of that call: a wrapper's replaceExisting stands for
\* 'replace' when true and for 'skip' when false.
CallMode ==
  IF last'.op = "override" THEN last'.onConflict
  ELSE IF last'.replaceExisting THEN "replace" ELSE "skip"

\* After the step the target's entry is the new appearance ('replace'), and
\* with 'skip' the former entry if there was one and the new appearance if
\* not.
ReplaceOrSkipStored ==
  LET map == OverrideMapName(last'.kind)
  IN  /\ last'.id \in DOMAIN fo'[map]
      /\ fo'[map][last'.id] =
           IF CallMode = "skip" /\ last'.id \in DOMAIN fo[map]
           THEN fo[map][last'.id]
           ELSE last'.appearance

\* C12 as stated: after 'replace' the target's entry is exactly the new
\* appearance; after 'skip' an existing entry is as it was and the new
\* appearance is stored only when there was none; overrideModel,
\* overrideElement and overrideSubCategory do with replaceExisting true what
\* 'replace' does and with false what 'skip' does.
C12_Original ==
  [][(OverrideCall /\ CallMode \in {"replace", "skip"}) => ReplaceOrSkipStored]_vars

\* C12, amended: so it is unless the target is an element that is never drawn
\* (in neverDrawn, or animation node 0 is never drawn), for which the call
\* changes nothing, whatever the mode.
C12_ReplaceSkip ==
  [][(OverrideCall /\ CallMode \in {"replace", "skip"})
       => IF TargetNeverDrawn THEN fo' = fo ELSE ReplaceOrSkipStored]_vars

\* overrideModel with replaceExisting false has left an entry that is not the
\* appearance it was called with.
C12_Witness ==
  /\ last.op = "overrideModel" /\ ~last.replaceExisting
  /\ last.id \in DOMAIN fo.modelOverrides
  /\ fo.modelOverrides[last.id] # last.appearance

\* After the step the element-override entry of the target is what the
\* call's conflict mode makes of the former entry and the new appearance, and
\* nothing else of the registry has changed.
ConflictModeStored ==
  LET id == last'.id
      had == id \in DOMAIN fo.elementOverrides
  IN  /\ id \in DOMAIN fo'.elementOverrides
      /\ [fo' EXCEPT !.elementOverrides = fo.elementOverrides] = fo
      /\ \A k \in DOMAIN fo'.elementOverrides :
           k # id => /\ k \in DOMAIN fo.elementOverrides
                     /\ fo'.elementOverrides[k] = fo.elementOverrides[k]
      /\ IF ~had \/ CallMode = "replace"
           THEN fo'.elementOverrides[id] = last'.appearance
         ELSE IF CallMode = "skip"
           THEN fo'.elementOverrides[id] = fo.elementOverrides[id]
         ELSE IF CallMode = "extend" THEN ExtendStored
         ELSE SubsumeStored

\* C13: override() on an element id leaves the whole registry unchanged if the
\* element is in neverDrawn at the time of the call; in every other case the
\* conflict mode is applied against the existing entry, if any, and the
\* result is stored in the element-override mapping.
C13_Original ==
  [][(OverrideCall /\ last'.kind = "elementId")
       => IF last'.id \in fo.neverDrawn THEN fo' = fo ELSE ConflictModeStored]_vars

(***************************************************************************)
(* FeatureAppearance (SpecAppearance)                                      *)
(***************************************************************************)

\* C14: a.extendAppearance(b) has, for each of rgb, weight, transparency,
\* linePixels, ignoresMaterial, nonLocatable and emphasized, b's value when b
\* defines the member and a's value when b leaves it undefined.
C14_MergePerField ==
  last.op = "extendAppearance"
  => \A f \in Aspects :
       last.ret[f] = IF IsDef(last.b[f]) THEN last.b[f] ELSE last.a[f]

\* A merge that takes the weight from b and the colour from a, and is not
\* what the merge the other way round gives.
C14_Witness ==
  /\ last.op = "extendAppearance"
  /\ IsDef(last.a.weight) /\ IsDef(last.b.weight) /\ last.a.weight # last.b.weight
  /\ last.ret.weight = last.b.weight
  /\ IsDef(last.a.rgb) /\ ~IsDef(last.b.rgb) /\ last.ret.rgb = last.a.rgb
  /\ extendAppearance(last.b, last.a) # last.ret

\* C15: in a.extendAppearance(b) the result has viewDependentTransparency set
\* exactly when the operand that supplied the result's transparency has it
\* set: b if b defines a transparency, a otherwise.
C15_Original ==
  last.op = "extendAppearance"
  => (Truthy(last.ret.viewDependentTransparency)
        <=> IF IsDef(last.b.transparency)
            THEN Truthy(last.b.viewDependentTransparency)
            ELSE Truthy(last.a.viewDependentTransparency))

\* The weight and the transparency a call constructs its result from: the
\* member of the props, or for clone that of changedProps where present.
InputOf(k) ==
  IF last.op = "clone" /\ k \in DOMAIN last.changedProps
  THEN last.changedProps[k] ELSE last.props[k]

WeightInRange(w) ==
  IF w < MinWeight THEN MinWeight ELSE IF w > MaxWeight THEN MaxWeight ELSE w

\* A transparency clamped into [0, 1] and moved to the bound it is less than
\* 1e-4 away from.
TransparencySnapped(t) ==
  LET c == IF t < 0 THEN 0 ELSE IF t > TranspOne THEN TranspOne ELSE t
  IN  IF TranspOne - c < smallDelta THEN TranspOne
      ELSE IF c < smallDelta THEN 0 ELSE c

\* The same, with 0.9999 moved to 1 as well.
TransparencyAsComputed(t) ==
  IF t = TranspOne - smallDelta THEN TranspOne ELSE TransparencySnapped(t)

\* What a merge returns is within the ranges and comes from an operand.
MergedInRange ==
  last.op = "extendAppearance"
  => /\ last.ret.weight \in {last.a.weight, last.b.weight}
     /\ IsDef(last.ret.weight) => Val(last.ret.weight) \in MinWeight..MaxWeight
     /\ last.ret.transparency \in {last.a.transparency, last.b.transparency}
     /\ IsDef(last.ret.transparency) =>
          \/ Val(last.ret.transparency) \in {0, TranspOne}
          \/ Val(last.ret.transparency) \in smallDelta..(TranspOne - smallDelta)

Suppressed(f, q) ==
  \E i \in 1..Len(f.ignoreAnimationOverrides) :
    ApplyIgnore(f.ignoreAnimationOverrides[i],
                [elementId |-> q.elem, animationNodeId |-> q.animationNodeId])

\* The query shows the element layer as it is: the element layer is
\* consulted, no model override and no subcategory override is folded in,
\* and an appearance is returned.
ShowsElementLayer ==
  /\ Queried /\ IsDef(last.ret)
  /\ (IsClassifier(last.q.type) \/ ValidId(last.q.elem))
  /\ ~IsDef(ModelOvr(fo, last.q))
  /\ (~ValidId(last.q.subcat) \/ ~IsDef(SubOvr(fo, last.q)))

\* C17: where an element override and a non-suppressed animation-node
\* override both apply, the element layer has the element override's value for
\* every aspect it defines and the animation-node override's for the others,
\* on the primary and the classifier path; where only one of the two exists,
\* the element layer is that one.
C17_ElementBeatsAnimation ==
  ShowsElementLayer =>
    LET e == ElemOvr(fo, last.q)
        n == NodeOvr(fo, last.q)
    IN  /\ (IsDef(e) /\ IsDef(n) /\ ~Suppressed(fo, last.q))
             => \A a \in Aspects :
                  Val(last.ret)[a] = IF IsDef(Val(e)[a]) THEN Val(e)[a] ELSE Val(n)[a]
        /\ (IsDef(e) /\ ~IsDef(n)) => last.ret = e
        /\ (~IsDef(e) /\ IsDef(n) /\ ~Suppressed(fo, last.q)) => last.ret = n

\* Element and animation-node override define different weights and only the
\* latter a colour: the element's weight and the node's colour are returned.
C17_Witness ==
  /\ ShowsElementLayer /\ ~Suppressed(fo, last.q)
  /\ Defines(ElemOvr(fo, last.q), "weight") /\ Defines(NodeOvr(fo, last.q), "weight")
  /\ Val(ElemOvr(fo, last.q)).weight # Val(NodeOvr(fo, last.q)).weight
  /\ Val(last.ret).weight = Val(ElemOvr(fo, last.q)).weight
  /\ ~Defines(ElemOvr(fo, last.q), "rgb") /\ Defines(NodeOvr(fo, last.q), "rgb")
  /\ Val(last.ret).rgb = Val(NodeOvr(fo, last.q)).rgb

\* The registry without the animation-node override of q's node.
WithoutNodeOvr(f, q) ==
  [f EXCEPT !.animationNodeOverrides =
     [k \in (DOMAIN @) \ {q.animationNodeId} |-> @[k]]]

AppliedSubOvr(f, q) ==
  IF ~f.ignoreSubCategory /\ ValidId(q.subcat) THEN SubOvr(f, q) ELSE Undefined

AlwaysDrawn(f, q) == ValidId(q.elem) /\ q.elem \in f.alwaysDrawn

\* The gate applies to the query: primary path, ignoreSubCategory false, a
\* valid subcategory id, and the feature not always drawn or
\* alwaysDrawnIgnoresSubCategory false.
Gated ==
  /\ Queried /\ ~IsClassifier(last.q.type)
  /\ ~fo.ignoreSubCategory /\ ValidId(last.q.subcat)
  /\ (~AlwaysDrawn(fo, last.q) \/ ~fo.alwaysDrawnIgnoresSubCategory)

\* The registry with the subcategory of q plainly visible: in the visible
\* set, and no inversion registered.
PlainlyVisible(f, q) ==
  [f EXCEPT !.visibleSubCategories = @ \cup {q.subcat},
            !.modelSubCategoryOverrides = EmptyMap]

\* Another rule hides the feature of the query, or may: it is never drawn, it
\* is excluded by isAlwaysDrawnExclusive, its geometry class is not drawn, or
\* an override that applies to it is fully transparent.
HiddenOtherwise(f, q) ==
  \/ ValidId(q.elem)
       /\ (q.elem \in f.neverDrawn \/ q.animationNodeId \in f.neverDrawnAnimationNodes)
  \/ ValidId(q.elem) /\ f.isAlwaysDrawnExclusive /\ q.elem \notin f.alwaysDrawn
  \/ ~AlwaysDrawn(f, q)
       /\ \/ q.geomClass = "Construction" /\ ~f.constructions
          \/ q.geomClass = "Dimension" /\ ~f.dimensions
          \/ q.geomClass = "Pattern" /\ ~f.patterns
  \/ \E o \in {ModelOvr(f, q), ElemOvr(f, q), NodeOvr(f, q), SubOvr(f, q),
               Def(f.defaultOverrides)} : IsDef(o) /\ Clear(Val(o))

\* The registry with nothing registered for subcategories.
NoSubCategories(f) ==
  [f EXCEPT !.visibleSubCategories = {}, !.modelSubCategoryOverrides = EmptyMap,
            !.subCategoryOverrides = EmptyMap]

AllClassesDrawn(f) ==
  [f EXCEPT !.constructions = TRUE, !.dimensions = TRUE, !.patterns = TRUE]

\* The toggle of the geometry class of q is false.
ClassOff(f, q) ==
  \/ q.geomClass = "Construction" /\ ~f.constructions
  \/ q.geomClass = "Dimension" /\ ~f.dimensions
  \/ q.geomClass = "Pattern" /\ ~f.patterns

\* C21: on the primary path a feature that is not always drawn and whose
\* geometry class is Construction, Dimension or Pattern is not-visible while
\* the toggle of that class is false; the three toggles are false after
\* construction; a feature of another class resolves as with every class
\* drawn.
C21_ClassVisibility ==
  /\ nOps = 0 => ~fo.constructions /\ ~fo.dimensions /\ ~fo.patterns
  /\ (Queried /\ ~IsClassifier(last.q.type))
       => /\ (~AlwaysDrawn(fo, last.q) /\ ClassOff(fo, last.q))
                => last.ret = Undefined
          /\ last.q.geomClass \notin {"Construction", "Dimension", "Pattern"}
                => last.ret = Resolve(AllClassesDrawn(fo), last.q)

\* A pattern is hidden by its toggle alone, while constructions are drawn.
C21_Witness ==
  /\ Queried /\ ~IsClassifier(last.q.type)
  /\ last.q.geomClass = "Pattern" /\ ~fo.patterns /\ fo.constructions
  /\ last.ret = Undefined
  /\ IsDef(Resolve(AllClassesDrawn(fo), last.q))

(***************************************************************************)
(* Provider chains (SpecProvider)                                          *)
(***************************************************************************)

\* A call of chain(first, second).getFeatureAppearance has returned.
Chained == last.op = "getFeatureAppearance"

\* C22: chain(supplement(f), supplement(g)), asked for a feature the source
\* gives appearance a, returns g(f(a)), f called first and g second; asked for
\* a feature the source does not show it returns not-visible and calls
\* neither.  chain(p, p) is p itself and calls the function of p once.
C22_ChainOrder ==
  Chained =>
    LET a == Resolve(fo, last.q)
        f == last.first.supplementAppearance
        g == last.second.supplementAppearance
    IN  /\ ~IsDef(a) => last.ret = Undefined /\ last.calls = <<>>
        /\ (IsDef(a) /\ last.first # last.second)
             => /\ last.ret = Def(ApplySupplement(g, ApplySupplement(f, Val(a))))
                /\ last.calls = <<f, g>>
        /\ last.first = last.second
             => /\ last.provider = last.first
                /\ IsDef(a) => /\ last.ret = Def(ApplySupplement(f, Val(a)))
                               /\ last.calls = <<f>>

\* The order shows: 'weight5' then 'heavier' gives weight 15, the other order
\* would give 5.
C22_Witness ==
  /\ Chained /\ last.first # last.second
  /\ last.calls = <<"weight5", "heavier">>
  /\ last.ret # Def(ApplySupplement("weight5", ApplySupplement("heavier", Val(Resolve(fo, last.q)))))
  /\ Val(last.ret).weight = Def(15)

(***************************************************************************)
(* The queries leave the registry alone (SpecQuery)                        *)
(***************************************************************************)

\* What was called, with which arguments.
Call(l) == [l EXCEPT !.ret = Undefined, !.n = 0]

\* C23: a call of getAppearance, getFeatureAppearance or isFeatureVisible
\* leaves every field of the registry as it was, and returns what the call
\* before it returned when that was the same call with the same arguments.
C23_QueriesReadOnly ==
  [][last'.op \in {"getAppearance", "getFeatureAppearance", "isFeatureVisible"}
       => /\ fo' = fo
          /\ (Resolved /\ Call(last') = Call(last)) => last'.ret = last.ret]_vars

\* The same query of a registry with overrides has been made twice.
C23_Witness ==
  /\ Resolved /\ last.n = 2
  /\ last.op = "getFeatureAppearance" /\ IsDef(last.ret)
  /\ fo.elementOverrides # EmptyMap /\ fo.neverDrawn # {}

(***************************************************************************)
(* Line weights (SpecQuery)                                                *)
(***************************************************************************)

\* C24: while lineWeights is false, every appearance getAppearance returns for
\* a feature of an ordinary batch has weight 1, whatever overrides apply.
C24_Original ==
  (Queried /\ ~IsClassifier(last.q.type) /\ ~fo.lineWeights /\ IsDef(last.ret))
  => Val(last.ret).weight = Def(1)

(***************************************************************************)
(* Animation node 0 (SpecAnimation)                                        *)
(***************************************************************************)

\* The registry with no animation-node overrides.
NoNodeOverrides(f) == [f EXCEPT !.animationNodeOverrides = EmptyMap]

\* The registry with no animation-node override but that of node 0, and no
\* function that suppresses animation-node overrides.
OnlyNodeZero(f) ==
  [f EXCEPT !.animationNodeOverrides = [k \in (DOMAIN @) \cap {0} |-> @[k]],
            !.ignoreAnimationOverrides = <<>>]

\* C25 as stated: for animation node 0 getAppearance returns what it returns
\* for a registry with no animation-node overrides, also when an appearance
\* has been registered for node 0.
C25_Original ==
  (Queried /\ last.q.animationNodeId = 0)
  => last.ret = Resolve(NoNodeOverrides(fo), last.q)

\* C25, amended: for animation node 0 getAppearance applies no animation-node
\* override but the one registered for node 0 itself, and that one whatever
\* the suppressing functions say: the result equals the result for a registry
\* whose only animation-node override is that of node 0 and which has no
\* suppressing function, and where the element layer shows, it has the
\* aspects of the override of node 0 that the element override leaves
\* undefined.
C25_NodeZero ==
  (Queried /\ last.q.animationNodeId = 0)
  => /\ last.ret = Resolve(OnlyNodeZero(fo), last.q)
     /\ (ShowsElementLayer /\ IsDef(NodeOvr(fo, last.q)))
          => \A a \in Aspects :
               Val(last.ret)[a] = IF Defines(ElemOvr(fo, last.q), a)
                                  THEN Val(ElemOvr(fo, last.q))[a]
                                  ELSE Val(NodeOvr(fo, last.q))[a]

\* An override registered for node 0 shows in the result for node 0, though a
\* registered function returns true for the element.
C25_Witness ==
  /\ Queried /\ last.q.animationNodeId = 0 /\ Suppressed(fo, last.q)
  /\ ValidId(last.q.elem) /\ IsDef(last.ret)
  /\ Defines(NodeOvr(fo, last.q), "rgb") /\ Val(last.ret).rgb = Val(NodeOvr(fo, last.q)).rgb
  /\ last.ret # Resolve(NoNodeOverrides(fo), last.q)

(***************************************************************************)
(* Never-drawn animation nodes (SpecQuery)                                 *)
(***************************************************************************)

\* C26 as stated: a feature of an ordinary batch whose animation node is in
\* neverDrawnAnimationNodes is not-visible, whatever its element id, valid or
\* invalid, its model and its subcategory.
C26_Original ==
  (Queried /\ ~IsClassifier(last.q.type)
     /\ last.q.animationNodeId \in fo.neverDrawnAnimationNodes)
  => last.ret = Undefined

\* C26, amended: a feature of an ordinary batch with a valid element id whose
\* animation node is in neverDrawnAnimationNodes is not-visible, whatever its
\* model and subcategory.
C26_NeverDrawnNodes ==
  (Queried /\ ~IsClassifier(last.q.type) /\ ValidId(last.q.elem)
     /\ last.q.animationNodeId \in fo.neverDrawnAnimationNodes)
  => last.ret = Undefined

\* An always-drawn element that is not in neverDrawn is hidden by its
\* animation node alone.
C26_Witness ==
  /\ Queried /\ ~IsClassifier(last.q.type) /\ ValidId(last.q.elem)
  /\ last.q.animationNodeId = 1 /\ 1 \in fo.neverDrawnAnimationNodes
  /\ last.q.elem \notin fo.neverDrawn /\ last.q.elem \in fo.alwaysDrawn
  /\ last.ret = Undefined
  /\ IsDef(Resolve(fo, [last.q EXCEPT !.animationNodeId = 0]))

(***************************************************************************)
(* Invalid identifiers (SpecInvalid)                                       *)
(***************************************************************************)

\* The registry with nothing registered for elements.
WithoutElements(f) ==
  [f EXCEPT !.neverDrawn = {}, !.alwaysDrawn = {}, !.isAlwaysDrawnExclusive = FALSE,
            !.elementOverrides = EmptyMap]

\* What the layers that name neither an element nor a subcategory give: the
\* model override over the seed, or else the default overrides over it.
ModelOrDefaults(f, q) ==
  LET seed == IF f.lineWeights THEN defaults ELSE weight1Appearance
  IN  IF IsDef(ModelOvr(f, q)) THEN extendAppearance(Val(ModelOvr(f, q)), seed)
      ELSE extendAppearance(f.defaultOverrides, seed)

\* C27: on the primary path a feature with an invalid element id resolves as
\* with nothing in neverDrawn and alwaysDrawn, no exclusivity and no element
\* overrides; a feature with an invalid subcategory id resolves as with no
\* visible subcategories, inversions and subcategory overrides.  The other
\* layers are applied: the subcategory gate hides a feature with an invalid
\* element id, and with both ids invalid the result is the model override,
\* or else the default overrides.
C27_InvalidIdsSkipped ==
  (Queried /\ ~IsClassifier(last.q.type))
  => /\ ~ValidId(last.q.elem) => last.ret = Resolve(WithoutElements(fo), last.q)
     /\ ~ValidId(last.q.subcat) => last.ret = Resolve(NoSubCategories(fo), last.q)
     /\ (~ValidId(last.q.elem) /\ ValidId(last.q.subcat) /\ ~VisibleInModel(fo, last.q))
          => last.ret = Undefined
     /\ (~ValidId(last.q.elem) /\ ~ValidId(last.q.subcat))
          => last.ret = Def(ModelOrDefaults(fo, last.q))

\* The invalid id is in neverDrawn, exclusivity is on with the invalid id not
\* always drawn, an override is registered for the invalid id: a feature
\* without element and subcategory gets the default overrides.
C27_Witness ==
  /\ Queried /\ ~ValidId(last.q.elem) /\ ~ValidId(last.q.subcat)
  /\ InvalidId \in fo.neverDrawn
  /\ fo.isAlwaysDrawnExclusive /\ InvalidId \notin fo.alwaysDrawn
  /\ last.q.animationNodeId = 1
  /\ last.ret = Def(fo.defaultOverrides)

(***************************************************************************)
(* setDefaultOverrides (SpecDefaults)                                      *)
(***************************************************************************)

\* C28: setDefaultOverrides(appearance, replaceExisting) makes the appearance
\* the default overrides when replaceExisting is true; when it is false, it
\* does so only if no default overrides are defined at the time of the call,
\* and leaves defined default overrides as they are.
C28_Original ==
  [][last'.op = "setDefaultOverrides"
       => fo'.defaultOverrides =
            IF last'.replaceExisting \/ ~overridesSymbology(fo.defaultOverrides)
            THEN last'.appearance
            ELSE fo.defaultOverrides]_vars

(***************************************************************************)
(* isFeatureVisible and getAppearance (SpecQuery)                          *)
(***************************************************************************)

\* No appearance registered in f, nor its default overrides, is fully
\* transparent.
NoClearOverride(f) ==
  /\ \A name \in {"modelOverrides", "elementOverrides", "subCategoryOverrides",
                  "animationNodeOverrides"} :
       \A k \in DOMAIN f[name] : ~Clear(f[name][k])
  /\ ~Clear(f.defaultOverrides)

\* getAppearance for the identifiers of `feature` in model M1, batch type
\* Primary, animation node 0.
AppearanceOf(f, feature) ==
  getAppearance(f, feature.elementId[1], feature.elementId[2],
                feature.subCategoryId[1], feature.subCategoryId[2],
                feature.geometryClass, M1[1], M1[2], "Primary", 0)

\* C29: with no per-model inversion registered and no fully transparent
\* override, isFeatureVisible(feature) is true exactly when getAppearance for
\* the same identifiers, batch type Primary and animation node 0 returns an
\* appearance, for valid and invalid element and subcategory ids.
C29_Original ==
  (last.op = "isFeatureVisible" /\ fo.modelSubCategoryOverrides = EmptyMap
     /\ NoClearOverride(fo))
  => (last.ret <=> IsDef(AppearanceOf(fo, last.feature)))

(***************************************************************************)
(* What the suppressing functions are handed (SpecReentrant)               *)
(***************************************************************************)

\* C30: every function called during getAppearance for element E and
\* animation node N is handed elementId E and animationNodeId N, also the
\* functions called after one that has called getAppearance itself for
\* another element.
C30_Original ==
  Queried =>
    \A i \in 1..Len(last.seen) :
      last.seen[i] = [elementId |-> last.q.elem,
                      animationNodeId |-> last.q.animationNodeId]

=============================================================================
